---- MODULE Spec2Model ----
(***************************************************************************)
(* Verification model of the PDF -> HTML conversion pipeline               *)
(* (backend/main.py, backend/convert_pdf_end_to_end.py).                   *)
(*                                                                         *)
(* The module holds several specifications over one set of variables:      *)
(*   SpecRL    the RateLimiter of main.py under concurrent acquire()       *)
(*   SpecPipe  convert_pdf_folder of main.py over a batch of documents,    *)
(*             per page (reader chain, worker pool, supervisor) or whole   *)
(*   SpecE2E   convert_pdf_end_to_end.main: assembly of one document       *)
(*   SpecEmb   embed_images_inline of main.py on one output file           *)
(*   SpecBatch convert_pdf_end_to_end.main over a batch of documents, with *)
(*             the run of convert_to_formats.py for each                   *)
(*   SpecBatchRL the RateLimiter of each document of a batch in turn       *)
(*   SpecPrint the print calls of the workers, of the helpers they call   *)
(*             and of the supervisor while the pool runs                   *)
(* Each specification drives its own group of variables and leaves the     *)
(* other groups at their initial values.                                   *)
(***************************************************************************)
EXTENDS Integers, Sequences, FiniteSets, TLC

None == "None"

\* ------------------------------------------------------------------------
\* Bounds of the model
\* ------------------------------------------------------------------------
\* RateLimiter(max_requests, time_window): the arguments of the constructor
MaxRequests == 2
TimeWindow == 3
\* number of threads that call acquire() concurrently
NumThreads == 2
\* the clock runs from 0 to MaxTime
MaxTime == 6
\* total number of acquire() calls started in one behaviour
MaxCalls == 4

\* number of PDF files in the input folder (pdf_files)
NumDocs == 2
\* largest page count a reader reports for a document
MaxPages == 2
\* max_workers of the ThreadPoolExecutor (the largest one in SpecPool)
MaxWorkers == 2
\* largest page count of the document the end-to-end wrapper assembles
MaxDocPages == 3

VARIABLES
    \* ---- RateLimiter (main.py 29-68)
    clock,        \* time.time(), in whole ticks
    requests,     \* self.requests: deque of timestamps, oldest first
    lock,         \* self.lock: the set of threads that hold it (empty or one)
    rl_pc,        \* per thread: position inside acquire()
    rl_now,       \* per thread: the local variable `now`
    rl_wake,      \* per thread: the clock value at which time.sleep() may return
    admitted,     \* history: every timestamp ever appended to self.requests,
                  \* with whether that call slept
    calls,        \* history: number of acquire() calls started
    \* ---- convert_pdf_folder (main.py 971-1182)
    max_workers,  \* argument max_workers: size of the ThreadPoolExecutor
    per_page,     \* argument per_page
    force,        \* argument force
    doc,          \* position of the loop `for pdf_file in pdf_files` (1-based)
    bpc,          \* position inside convert_pdf_folder
    tried,        \* read_pdf_with_fallback: the strategies tried, with outcomes
    reader,       \* (pdf_reader, num_pages, reader_type) as returned
    pg,           \* per page of the current document: the state of its
                  \* process_single_page call (the future)
    collected,    \* number of futures the supervisor has waited for
    results,      \* the supervisor's list `results`
    completed,    \* the supervisor's counter `completed`
    failed,       \* the supervisor's counter `failed`
    whole,        \* whole-document mode: state of the current document
    doc_log,      \* history, per document: how its iteration ended and
                  \* whether any page work was started for it
    \* ---- convert_pdf_end_to_end.main, one document (lines 81-322)
    e_pc,         \* position inside the loop body
    e_stem,       \* pdf_path.stem, as a sequence of name parts
    e_n,          \* number of pages of the document
    e_done,       \* pages whose worker has finished inside main.py
    e_dir,        \* tmp_output_html: the page files, in order of creation
    e_glob,       \* what tmp_output_html.glob(...) yielded, in its order
    e_divs,       \* page_divs
    e_doc,        \* document_lang and document_dir
    \* ---- embed_images_inline (main.py 662-821)
    manifest_state,  \* "missing", "unparseable" or "ok": what lines 672-679 meet
    manifest,        \* the images the manifest lists for the call (lines 681-690)
    page_num,        \* argument page_num; 0 stands for None
    inferred_page,   \* the page number line 745 reads out of the image file names
    out_file,        \* content of output_filepath, a sequence of markup items
    html,            \* the content read at lines 752-755 by the current/last run
    emb_pc,          \* position inside embed_images_inline
    emb_runs,        \* number of calls started on this file
    page_counters,   \* page_counters
    global_counter,  \* global_counter
    repl,            \* history: what _repl returned for each match, in order
    emb_last,        \* history: how the last finished call ended
    emb_result,      \* what the caller of the resolver returns once the call
                     \* is over (main.py 958-968); empty until then
    \* ---- convert_pdf_end_to_end.main, the batch (lines 76-322)
    b_i,          \* position of the loop `for pdf_path in pdf_files` (1-based)
    b_pc,         \* position inside the loop body
    b_k,          \* convert_to_formats.main: position of `for fmt in args.formats`
    b_results,    \* convert_to_formats.main: the list `results`
    b_out,        \* history, per document: the lines the wrapper has printed
    b_conv,       \* history, per document: how its converter run went
    \* ---- printing while the pool runs (main.py 835-968, 1045, 1070-1089)
    verbose,      \* argument verbose
    with_images,  \* the manifest of the document exists and lists images
    print_lock,   \* print_lock: the set of threads that hold it
    pr_pos,       \* per thread: number of its print calls that are over
    pr_pc         \* per thread: "run", "wait" (for print_lock) or "printing"

rlVars == <<clock, requests, lock, rl_pc, rl_now, rl_wake, admitted, calls>>
pipeVars == <<max_workers, per_page, force, doc, bpc, tried, reader, pg, collected, results,
              completed, failed, whole, doc_log>>

e2eVars == <<e_pc, e_stem, e_n, e_done, e_dir, e_glob, e_divs, e_doc>>

embVars == <<manifest_state, manifest, page_num, inferred_page, out_file, html,
             emb_pc, emb_runs, page_counters, global_counter, repl, emb_last,
             emb_result>>

batchVars == <<b_i, b_pc, b_k, b_results, b_out, b_conv>>

printVars == <<verbose, with_images, print_lock, pr_pos, pr_pc>>

vars == <<rlVars, pipeVars, e2eVars, embVars, batchVars, printVars>>
nonRL == <<pipeVars, e2eVars, embVars, batchVars, printVars>>
nonPipe == <<rlVars, e2eVars, embVars, batchVars, printVars>>
nonE2E == <<rlVars, pipeVars, embVars, batchVars, printVars>>
nonEmb == <<rlVars, pipeVars, e2eVars, batchVars, printVars>>
nonBatch == <<rlVars, pipeVars, e2eVars, embVars, printVars>>
nonPrint == <<rlVars, pipeVars, e2eVars, embVars, batchVars>>

\* ------------------------------------------------------------------------
\* Shapes of the pipeline state and its value before anything has run
\* ------------------------------------------------------------------------
Docs == 1..NumDocs
Pages == 0..(MaxPages - 1)

\* a page that has not been submitted to the executor
NoPage ==
    [pc |-> "none", calls |-> <<>>, handles |-> <<>>, retries |-> 0,
     pre |-> "unknown",
     acquires |-> 0, uploads |-> 0, gens |-> 0, deletes |-> 0,
     tmp |-> FALSE, uploaded |-> FALSE, written |-> FALSE, gen_ok |-> FALSE,
     cause |-> "none", result |-> <<>>, trace |-> <<>>, starts |-> 0]

NoReader == [handle |-> "none", num_pages |-> 0, reader_type |-> "none"]

NoWhole == [uploaded |-> FALSE, written |-> FALSE, gen_ok |-> FALSE]

NoLog == [status |-> "pending", touched |-> FALSE]

\* a document whose converter has not been run
NoConv == [how |-> "none", results |-> <<>>, returned |-> "none"]

\* the per-document locals of convert_pdf_folder before a document is read
DocLocalsCleared ==
    /\ tried = <<>>
    /\ reader = NoReader
    /\ pg = [p \in Pages |-> NoPage]
    /\ collected = 0
    /\ results = <<>>
    /\ completed = 0
    /\ failed = 0
    /\ whole = NoWhole

\* convert_pdf_end_to_end.py 181-182: document_lang = 'en', document_dir = 'ltr'
DocDefault == [lang |-> "en", dir |-> "ltr"]

E2EIdle ==
    /\ e_pc = "idle"
    /\ e_stem = <<>>
    /\ e_n = 0
    /\ e_done = {}
    /\ e_dir = <<>>
    /\ e_glob = <<>>
    /\ e_divs = <<>>
    /\ e_doc = DocDefault

\* the supervisor (thread 0) and the threads of the pool
PrintThreads == 0..MaxWorkers

PrintIdle ==
    /\ verbose = FALSE
    /\ with_images = FALSE
    /\ print_lock = {}
    /\ pr_pos = [t \in PrintThreads |-> 0]
    /\ pr_pc = [t \in PrintThreads |-> "idle"]

BatchIdle ==
    /\ b_i = 1
    /\ b_pc = "idle"
    /\ b_k = 1
    /\ b_results = <<>>
    /\ b_out = [d \in Docs |-> <<>>]
    /\ b_conv = [d \in Docs |-> NoConv]

EmbIdle ==
    /\ manifest_state = "missing"
    /\ manifest = <<>>
    /\ page_num = 0
    /\ inferred_page = 0
    /\ out_file = <<>>
    /\ html = <<>>
    /\ emb_pc = "idle"
    /\ emb_runs = 0
    /\ page_counters = <<>>
    /\ global_counter = 0
    /\ repl = <<>>
    /\ emb_last = "none"
    /\ emb_result = <<>>

PipeIdle ==
    /\ max_workers = 1
    /\ per_page = TRUE
    /\ force = FALSE
    /\ doc = 1
    /\ bpc = "idle"
    /\ doc_log = [d \in Docs |-> NoLog]
    /\ DocLocalsCleared

\* ========================================================================
\* RateLimiter                                             main.py 29-68
\* ========================================================================
Threads == 1..NumThreads

\* while self.requests and self.requests[0] <= now - self.time_window: popleft()
RECURSIVE EvictOneEarly(_, _)
EvictOneEarly(q, now) ==
    IF q # <<>> /\ Head(q) <= now - TimeWindow + 1
    THEN EvictOneEarly(Tail(q), now)
    ELSE q

RECURSIVE Evict(_, _)
Evict(q, now) ==
    IF q # <<>> /\ Head(q) <= now - TimeWindow
    THEN Evict(Tail(q), now)
    ELSE q

\* a sleep that is too short by one tick (mutant of SleepTime)
SleepTimeShort(q, now) == Head(q) + TimeWindow - now - 1

\* sleep_time = self.requests[0] + self.time_window - now
SleepTime(q, now) == Head(q) + TimeWindow - now

\* if len(self.requests) >= self.max_requests
AtLimitOneEarly(q) == Len(q) >= MaxRequests - 1

AtLimit(q) == Len(q) >= MaxRequests

RLInit ==
    /\ clock = 0
    /\ requests = <<>>
    /\ lock = {}
    /\ rl_pc = [t \in Threads |-> "idle"]
    /\ rl_now = [t \in Threads |-> 0]
    /\ rl_wake = [t \in Threads |-> 0]
    /\ admitted = <<>>
    /\ calls = 0

\* time passes; MaxTime bounds the clock only while no thread is inside
\* time.sleep(), so that a sleep always comes to its end
Tick ==
    /\ \/ clock < MaxTime
       \/ \E t \in Threads : rl_pc[t] = "sleeping" /\ clock < rl_wake[t]
    /\ clock' = clock + 1
    /\ UNCHANGED <<requests, lock, rl_pc, rl_now, rl_wake, admitted, calls>>
    /\ UNCHANGED nonRL

\* a thread calls acquire() and waits for `with self.lock`
RLCall(t) ==
    /\ rl_pc[t] = "idle"
    /\ calls < MaxCalls
    /\ calls' = calls + 1
    /\ rl_pc' = [rl_pc EXCEPT ![t] = "wait_lock"]
    /\ UNCHANGED <<clock, requests, lock, rl_now, rl_wake, admitted>>
    /\ UNCHANGED nonRL

\* `with self.lock:` the thread obtains the mutex
RLLock(t) ==
    /\ rl_pc[t] = "wait_lock"
    /\ lock = {}
    /\ lock' = {t}
    /\ rl_pc' = [rl_pc EXCEPT ![t] = "locked"]
    /\ UNCHANGED <<clock, requests, rl_now, rl_wake, admitted, calls>>
    /\ UNCHANGED nonRL

\* lines 51-61: read the clock, evict, and either go on to record or start
\* time.sleep(sleep_time); the mutex stays held
RLCheck(t) ==
    /\ rl_pc[t] = "locked"
    /\ LET q == Evict(requests, clock) IN
        /\ requests' = q
        /\ rl_now' = [rl_now EXCEPT ![t] = clock]
        /\ IF AtLimit(q)
           THEN IF SleepTime(q, clock) > 0
                THEN /\ rl_pc' = [rl_pc EXCEPT ![t] = "sleeping"]
                     /\ rl_wake' = [rl_wake EXCEPT ![t] = clock + SleepTime(q, clock)]
                ELSE /\ rl_pc' = [rl_pc EXCEPT ![t] = "woken"]
                     /\ rl_wake' = [rl_wake EXCEPT ![t] = clock]
           ELSE /\ rl_pc' = [rl_pc EXCEPT ![t] = "record"]
                /\ UNCHANGED rl_wake
    /\ UNCHANGED <<clock, lock, admitted, calls>>
    /\ UNCHANGED nonRL

\* time.sleep() returns once at least sleep_time has passed
RLWake(t) ==
    /\ rl_pc[t] = "sleeping"
    /\ clock >= rl_wake[t]
    /\ rl_pc' = [rl_pc EXCEPT ![t] = "woken"]
    /\ UNCHANGED <<clock, requests, lock, rl_now, rl_wake, admitted, calls>>
    /\ UNCHANGED nonRL

\* the queue is not cleaned again after the sleep (mutant of RLRecheck)
RLRecheckNoEvict(t) ==
    /\ rl_pc[t] = "woken"
    /\ rl_now' = [rl_now EXCEPT ![t] = clock]
    /\ rl_pc' = [rl_pc EXCEPT ![t] = "record"]
    /\ UNCHANGED <<clock, requests, lock, rl_wake, admitted, calls>>
    /\ UNCHANGED nonRL

\* lines 63-65: read the clock again and evict again
RLRecheck(t) ==
    /\ rl_pc[t] = "woken"
    /\ rl_now' = [rl_now EXCEPT ![t] = clock]
    /\ requests' = Evict(requests, clock)
    /\ rl_pc' = [rl_pc EXCEPT ![t] = "record"]
    /\ UNCHANGED <<clock, lock, rl_wake, admitted, calls>>
    /\ UNCHANGED nonRL

\* line 68 and the end of the with block: record the call, release the mutex
RLRecordKeepsLock(t) ==
    /\ rl_pc[t] = "record"
    /\ requests' = Append(requests, rl_now[t])
    /\ admitted' = Append(admitted, [at |-> rl_now[t], slept |-> rl_wake[t] > 0])
    /\ rl_pc' = [rl_pc EXCEPT ![t] = "idle"]
    /\ rl_now' = [rl_now EXCEPT ![t] = 0]
    /\ rl_wake' = [rl_wake EXCEPT ![t] = 0]
    /\ UNCHANGED <<clock, calls, lock>>
    /\ UNCHANGED nonRL

RLRecord(t) ==
    /\ rl_pc[t] = "record"
    /\ requests' = Append(requests, rl_now[t])
    /\ admitted' = Append(admitted, [at |-> rl_now[t], slept |-> rl_wake[t] > 0])
    /\ lock' = {}
    /\ rl_pc' = [rl_pc EXCEPT ![t] = "idle"]
    /\ rl_now' = [rl_now EXCEPT ![t] = 0]
    /\ rl_wake' = [rl_wake EXCEPT ![t] = 0]
    /\ UNCHANGED <<clock, calls>>
    /\ UNCHANGED nonRL

NextRL ==
    \/ Tick
    \/ \E t \in Threads : RLCall(t)
    \/ \E t \in Threads : RLLock(t)
    \/ \E t \in Threads : RLCheck(t)
    \/ \E t \in Threads : RLWake(t)
    \/ \E t \in Threads : RLRecheck(t)
    \/ \E t \in Threads : RLRecord(t)

InitRL == RLInit /\ PipeIdle /\ E2EIdle /\ EmbIdle /\ BatchIdle /\ PrintIdle

SpecRL == InitRL /\ [][NextRL]_vars

\* The threads are OS threads and the clock is the wall clock: time passes,
\* a thread that can take a step inside acquire() takes it, and a thread
\* that waits for the mutex obtains it if it is free again and again.
FairSpecRL ==
    /\ SpecRL
    /\ WF_vars(Tick)
    /\ \A t \in Threads :
        /\ SF_vars(RLLock(t))
        /\ WF_vars(RLCheck(t))
        /\ WF_vars(RLWake(t))
        /\ WF_vars(RLRecheck(t))
        /\ WF_vars(RLRecord(t))

\* ------------------------------------------------------------------------
\* C1  For max_requests = R >= 1 and time_window = W, after any interleaving
\* of concurrent acquire() calls every trailing window (t - W, t] holds at
\* most R recorded admission timestamps.
\* ------------------------------------------------------------------------
AdmittedIn(t) ==
    {i \in DOMAIN admitted : admitted[i].at > t - TimeWindow /\ admitted[i].at <= t}

C1_WindowBound ==
    \A t \in 0..MaxTime : Cardinality(AdmittedIn(t)) <= MaxRequests

\* a caller beyond the first R has slept and been admitted one window later
C1_Witness ==
    /\ Len(admitted) > MaxRequests
    /\ \E i \in DOMAIN admitted : admitted[i].slept
    /\ \E t \in 0..MaxTime : Cardinality(AdmittedIn(t)) = MaxRequests

\* ========================================================================
\* convert_pdf_folder                                    main.py 971-1182
\* ========================================================================
PipeInit ==
    /\ max_workers = MaxWorkers
    /\ per_page \in BOOLEAN
    /\ force \in BOOLEAN
    /\ doc = 1
    /\ bpc = "doc_start"
    /\ doc_log = [d \in Docs |-> NoLog]
    /\ DocLocalsCleared

\* the per-document locals are rebound by the next iteration of the loop
ClearDocLocals ==
    /\ tried' = <<>>
    /\ reader' = NoReader
    /\ pg' = [p \in Pages |-> NoPage]
    /\ collected' = 0
    /\ results' = <<>>
    /\ completed' = 0
    /\ failed' = 0
    /\ whole' = NoWhole

\* where the loop `for pdf_file in pdf_files` stands after document d
NextDocPc(d) == IF d < NumDocs THEN "doc_start" ELSE "done"

\* the iteration of the current document ends and the loop goes on
Advance(status) ==
    /\ doc_log' = [doc_log EXCEPT ![doc].status = status]
    /\ doc' = doc + 1
    /\ bpc' = NextDocPc(doc)
    /\ ClearDocLocals

\* an exception leaves convert_pdf_folder: the batch run ends here
Abort(status) ==
    /\ doc_log' = [doc_log EXCEPT ![doc].status = status]
    /\ bpc' = "aborted"
    /\ UNCHANGED doc

\* APIError is a name the module knows and the handlers run (mutant of
\* ExceptAPIError)
ExceptAPIErrorCaught == "caught"

\* `except APIError as e` (lines 899, 950, 1115, 1177): main.py imports only
\* ClientError (line 5), so matching an exception against the clause raises
\* NameError, which propagates in place of the handler running
ExceptAPIError == "NameError"

\* lines 1011-1031: start of one iteration of the loop
DocStart ==
    /\ bpc = "doc_start"
    /\ bpc' = IF per_page THEN "read" ELSE "w_skipcheck"
    /\ UNCHANGED <<max_workers, per_page, force, doc, tried, reader, pg, collected, results,
                   completed, failed, whole, doc_log>>
    /\ UNCHANGED nonPipe

\* ------------------------------------------------------------------------
\* read_pdf_with_fallback                                   main.py 71-140
\* ------------------------------------------------------------------------
\* Strategy 1, 2, 3 in the order of the function body
StrategyOrder == <<"lenient", "pymupdf", "strict">>

\* every handle tagged 'pypdf' (mutant of ReaderTag)
ReaderTagAllPypdf(s) == "pypdf"

\* the third element of the returned tuple (lines 100, 116, 132)
ReaderTag(s) == IF s = "pymupdf" THEN "pymupdf" ELSE "pypdf"

\* one strategy is attempted; o = 0 when it raises, else the page count it
\* reports.  Success returns at once; failure falls through to the next
\* strategy, and after the last one the function raises (lines 138-140).
ReadTry(o) ==
    /\ bpc = "read"
    /\ Len(tried) < Len(StrategyOrder)
    /\ LET s == StrategyOrder[Len(tried) + 1] IN
        /\ tried' = Append(tried, [strategy |-> s, pages |-> o])
        /\ IF o > 0
           THEN /\ reader' = [handle |-> s, num_pages |-> o,
                              reader_type |-> ReaderTag(s)]
                /\ bpc' = "submit"
           ELSE /\ reader' = reader
                /\ bpc' = IF Len(tried) + 1 < Len(StrategyOrder)
                          THEN "read" ELSE "read_failed"
    /\ UNCHANGED <<max_workers, per_page, force, doc, pg, collected, results, completed,
                   failed, whole, doc_log>>
    /\ UNCHANGED nonPipe

\* the document is given up and the loop goes on (mutant of OnUnreadable:
\* the exception is not caught)
OnUnreadableRaise == Abort("unreadable") /\ UNCHANGED <<tried, reader, pg,
        collected, results, completed, failed, whole>>

\* lines 1036-1039: except Exception ... continue
OnUnreadable == Advance("unreadable")

SkipUnreadable ==
    /\ bpc = "read_failed"
    /\ OnUnreadable
    /\ UNCHANGED <<max_workers, per_page, force>>
    /\ UNCHANGED nonPipe

\* ------------------------------------------------------------------------
\* the worker pool                                       main.py 1045-1063
\* ------------------------------------------------------------------------
\* the stage of its processing a page is in, by the position of its
\* process_single_page call: queued in the executor; lines 835-886
\* (extraction, with the check of the existing output file); lines 888-894
\* (acquire); lines 896-912 (upload and generation call); lines 914-948
\* (clean-up of the text, up to the clean-up of the finally block); lines
\* 958-966 (image embedding); returned with success; returned without, or
\* raised
PageState(r) ==
    CASE r.pc = "none" -> "None"
      [] r.pc = "queued" -> "Pending"
      [] r.pc \in {"extract", "retry", "skipcheck"} -> "Extracting"
      [] r.pc \in {"acquire", "slot_print", "slot_wait", "slot_locked"}
            -> "RateLimited"
      [] r.pc \in {"upload", "generate", "hung"} -> "Generating"
      [] r.pc = "sanitize" -> "Sanitizing"
      [] r.pc = "finally" -> IF r.gen_ok THEN "Sanitizing" ELSE "Generating"
      [] r.pc = "embed" -> "Resolving"
      [] r.pc = "returned" -> IF r.result[2] THEN "Persisted" ELSE "Failed"
      [] r.pc = "raised" -> "Failed"

\* history: the stages a page has been in, in order
Traced(r) ==
    IF r.trace # <<>> /\ r.trace[Len(r.trace)] = PageState(r)
    THEN r
    ELSE [r EXCEPT !.trace = Append(@, PageState(r))]

\* lines 1043-1063: every page of the document is submitted to the executor
Submit ==
    /\ bpc = "submit"
    /\ pg' = [p \in Pages |-> IF p < reader.num_pages
                              THEN Traced([NoPage EXCEPT !.pc = "queued"])
                              ELSE NoPage]
    /\ doc_log' = [doc_log EXCEPT ![doc].touched = TRUE]
    /\ bpc' = "collect"
    /\ UNCHANGED <<max_workers, per_page, force, doc, tried, reader, collected, results,
                   completed, failed, whole>>
    /\ UNCHANGED nonPipe

Terminal(r) == r.pc \in {"returned", "raised"}
Running(r) == r.pc \notin {"none", "queued", "returned", "raised"}

\* frame of an action of one worker on page p
PageStep(p, r) ==
    /\ pg' = [pg EXCEPT ![p] = Traced(r)]
    /\ UNCHANGED <<max_workers, per_page, force, doc, bpc, tried, reader, collected, results,
                   completed, failed, whole, doc_log>>
    /\ UNCHANGED nonPipe

\* no task is started while a generation call hangs (mutant of StartPage)
StartPageUnlessHung(p) ==
    /\ bpc = "collect"
    /\ pg[p].pc = "queued"
    /\ \A q \in Pages : q < p => pg[q].pc # "queued"
    /\ \A q \in Pages : pg[q].pc # "hung"
    /\ Cardinality({q \in Pages : Running(pg[q])}) < max_workers
    /\ PageStep(p, [pg[p] EXCEPT !.pc = "extract", !.tmp = TRUE,
                                 !.starts = @ + 1])

\* a task is started although every thread of the pool is busy (mutant of
\* StartPage)
StartPageUnbounded(p) ==
    /\ bpc = "collect"
    /\ pg[p].pc = "queued"
    /\ \A q \in Pages : q < p => pg[q].pc # "queued"
    /\ PageStep(p, [pg[p] EXCEPT !.pc = "extract", !.tmp = TRUE,
                                 !.starts = @ + 1])

\* a free thread of the pool takes the oldest queued task (the pool of line
\* 1054 has max_workers threads); lines 835-840: the temporary single-page
\* file is created
StartPage(p) ==
    /\ bpc = "collect"
    /\ pg[p].pc = "queued"
    /\ \A q \in Pages : q < p => pg[q].pc # "queued"
    /\ Cardinality({q \in Pages : Running(pg[q])}) < max_workers
    /\ PageStep(p, [pg[p] EXCEPT !.pc = "extract", !.tmp = TRUE,
                                 !.starts = @ + 1])

\* ------------------------------------------------------------------------
\* process_single_page                                    main.py 824-968
\* ------------------------------------------------------------------------
\* a retry after every failed extraction (mutant of RetryAllowed)
RetryAlways(tag) == TRUE

\* line 852: if reader_type == 'pypdf'
RetryAllowed(tag) == tag = "pypdf"

\* lines 870-871
ExtractionFailed(p, r) ==
    [r EXCEPT !.pc = "returned", !.cause = "extract",
              !.result = <<p, FALSE, "None">>]

\* the object a strategy of read_pdf_with_fallback returns as the handle
\* (lines 97, 111, 129): a pypdf PdfReader or a fitz document
HandleKind(s) == IF s = "pymupdf" THEN "fitz.Document" ELSE "PdfReader"

\* lines 844-852: extract_page_as_pdf through the handle of the reader
Extract(p, ok) ==
    /\ pg[p].pc = "extract"
    /\ LET r == [pg[p] EXCEPT !.calls = Append(@, reader.reader_type),
                              !.handles = Append(@, HandleKind(reader.handle))] IN
        PageStep(p,
            IF ok THEN [r EXCEPT !.pc = "skipcheck"]
            ELSE IF RetryAllowed(reader.reader_type)
                 THEN [r EXCEPT !.pc = "retry"]
                 ELSE ExtractionFailed(p, r))

\* the fallback passes the tag of the reader on (mutant of FallbackCall)
FallbackCallKeepsTag(tag) == [handle |-> "fitz.Document", tag |-> tag]

\* lines 859-860: pymupdf_doc = fitz.open(str(pdf_file)) and
\* extract_page_as_pdf(pymupdf_doc, page_num, tmp_pdf_path, 'pymupdf', verbose)
FallbackCall(tag) == [handle |-> "fitz.Document", tag |-> "pymupdf"]

\* lines 853-871: PyMuPDF opened from the path of the document; out is
\* "ok", "open_failed" (import fitz or fitz.open raised) or "extract_failed"
Retry(p, out) ==
    /\ pg[p].pc = "retry"
    /\ LET c == FallbackCall(reader.reader_type)
           r == [pg[p] EXCEPT !.retries = @ + 1,
                              !.calls = IF out = "open_failed"
                                        THEN @ ELSE Append(@, c.tag),
                              !.handles = IF out = "open_failed"
                                          THEN @ ELSE Append(@, c.handle)] IN
        PageStep(p,
            IF out = "ok" THEN [r EXCEPT !.pc = "skipcheck"]
            ELSE ExtractionFailed(p, r))

\* lines 878-880: the page is skipped when its output file exists, force is
\* unset and the file is at least as new as the document
SkipTakenDespiteForce(st) == st = "fresh"

SkipTaken(st) == st = "fresh" /\ ~force

\* lines 873-886: st is the state of the page's output file before the run;
\* with force set the test of line 878 fails before the file times are read.
\* The extraction phase (lines 842-871) is over: its record of calls and
\* retries is kept only for a page that ended there.
SkipCheck(p, st) ==
    /\ pg[p].pc = "skipcheck"
    /\ LET r == [pg[p] EXCEPT !.pre = IF force THEN "unread" ELSE st,
                              !.calls = <<>>, !.handles = <<>>,
                              !.retries = 0] IN
        PageStep(p,
            IF SkipTaken(st)
            THEN [r EXCEPT !.pc = "returned", !.tmp = FALSE,
                           !.result = <<p, TRUE, "output_filepath">>]
            ELSE [r EXCEPT !.pc = "acquire"])

\* lines 888-894: rate_limiter.acquire() has returned; convert_pdf_folder
\* always passes the limiter of the document (lines 1048, 1061)
AcquireLeftOut(p) ==
    /\ pg[p].pc = "acquire"
    /\ PageStep(p, [pg[p] EXCEPT !.pc = "upload"])

Acquire(p) ==
    /\ pg[p].pc = "acquire"
    /\ PageStep(p, [pg[p] EXCEPT !.pc = "upload", !.acquires = @ + 1])

\* the upload is attempted again (mutant of UploadFailed)
UploadRetried(p, r) == [r EXCEPT !.pc = "upload", !.cause = "upload"]

\* lines 899-903: the upload raised
UploadFailed(p, r) ==
    IF ExceptAPIError = "caught"
    THEN [r EXCEPT !.pc = "returned", !.cause = "upload", !.tmp = FALSE,
                   !.result = <<p, FALSE, "None">>]
    ELSE [r EXCEPT !.pc = "raised", !.cause = "upload"]

\* lines 896-903: client.files.upload
Upload(p, ok) ==
    /\ pg[p].pc = "upload"
    /\ LET r == [pg[p] EXCEPT !.uploads = @ + 1] IN
        PageStep(p,
            IF ok THEN [r EXCEPT !.pc = "generate", !.uploaded = TRUE]
            ELSE UploadFailed(p, r))

\* lines 950-956: the generation raised; the finally block comes next
GenerateRetried(r) == [r EXCEPT !.pc = "generate", !.cause = "generate"]

\* the failed call ends the page without the finally block (mutant of
\* GenerateFailed)
GenerateFailedSkipsFinally(r) == [r EXCEPT !.pc = "raised", !.cause = "generate"]

GenerateFailed(r) == [r EXCEPT !.pc = "finally", !.cause = "generate"]

\* lines 908-912, 950-953: generate_content; on an exception the except
\* clause of line 950 is evaluated
Generate(p, ok) ==
    /\ pg[p].pc = "generate"
    /\ LET r == [pg[p] EXCEPT !.gens = @ + 1] IN
        PageStep(p,
            IF ok THEN [r EXCEPT !.pc = "sanitize"]
            ELSE GenerateFailed(r))

\* the text is cleaned but the page file is not written here (mutant of
\* Sanitize)
SanitizeWithoutWrite(p) ==
    /\ pg[p].pc = "sanitize"
    /\ PageStep(p, [pg[p] EXCEPT !.pc = "finally", !.gen_ok = TRUE])

\* lines 914-948: the code fences are stripped, the text is re-encoded,
\* ensure_html_lang_dir sets the attributes, and the page file is written
Sanitize(p) ==
    /\ pg[p].pc = "sanitize"
    /\ PageStep(p, [pg[p] EXCEPT !.pc = "finally", !.written = TRUE,
                                 !.gen_ok = TRUE])

\* lines 954-956: client.files.delete, os.unlink; then either the pending
\* exception goes on, or line 953 / 948 has set `success`
Finally(p, ok) ==
    /\ pg[p].pc = "finally"
    /\ LET r == [pg[p] EXCEPT !.deletes = @ + 1] IN
        PageStep(p,
            IF ~ok
            THEN [r EXCEPT !.pc = "raised",
                           !.cause = IF @ = "none" THEN "delete" ELSE @]
            ELSE IF r.gen_ok
            THEN [r EXCEPT !.pc = "embed", !.uploaded = FALSE, !.tmp = FALSE]
            ELSE IF ExceptAPIError = "caught"
            THEN [r EXCEPT !.pc = "returned", !.uploaded = FALSE,
                           !.tmp = FALSE,
                           !.result = <<p, FALSE, "output_filepath">>]
            ELSE [r EXCEPT !.pc = "raised", !.uploaded = FALSE,
                           !.tmp = FALSE])

\* lines 958-968: embed_images_inline (any exception is caught), return
Embed(p) ==
    /\ pg[p].pc = "embed"
    /\ PageStep(p, [pg[p] EXCEPT !.pc = "returned",
                                 !.result = <<p, TRUE, "output_filepath">>])

\* ------------------------------------------------------------------------
\* the supervisor                                        main.py 1065-1095
\* ------------------------------------------------------------------------
\* results.sort(key=lambda x: x[0]): insertion of one tuple by page index
RECURSIVE InsertByPage(_, _)
InsertByPage(x, sorted) ==
    IF sorted = <<>> THEN <<x>>
    ELSE IF Head(sorted)[1] <= x[1]
         THEN <<Head(sorted)>> \o InsertByPage(x, Tail(sorted))
         ELSE <<x>> \o sorted

RECURSIVE SortByPage(_)
SortByPage(seq) ==
    IF seq = <<>> THEN <<>>
    ELSE InsertByPage(seq[Len(seq)], SortByPage(SubSeq(seq, 1, Len(seq) - 1)))

\* lines 1072-1089: future.result() of the next future, in submission order
Collect ==
    /\ bpc = "collect"
    /\ collected < reader.num_pages
    /\ Terminal(pg[collected])
    /\ collected' = collected + 1
    /\ IF pg[collected].pc = "returned"
       THEN /\ results' = Append(results, pg[collected].result)
            /\ completed' = completed + 1
            /\ failed' = IF pg[collected].result[2] THEN failed ELSE failed + 1
       ELSE /\ failed' = failed + 1
            /\ UNCHANGED <<results, completed>>
    /\ UNCHANGED <<max_workers, per_page, force, doc, bpc, tried, reader, pg, whole, doc_log>>
    /\ UNCHANGED nonPipe

\* lines 1091-1093: the sort, and the end of the `with` block of the executor
PoolDone ==
    /\ bpc = "collect"
    /\ collected = reader.num_pages
    /\ \A p \in Pages : pg[p].pc = "none" \/ Terminal(pg[p])
    /\ results' = SortByPage(results)
    /\ bpc' = "summary"
    /\ UNCHANGED <<max_workers, per_page, force, doc, tried, reader, pg, collected, completed,
                   failed, whole, doc_log>>
    /\ UNCHANGED nonPipe

\* lines 1094-1095: the summary line; the loop goes on
Summary ==
    /\ bpc = "summary"
    /\ Advance("processed")
    /\ UNCHANGED <<max_workers, per_page, force>>
    /\ UNCHANGED nonPipe

\* ------------------------------------------------------------------------
\* whole-document mode                                   main.py 1097-1182
\* ------------------------------------------------------------------------
WholeStep(w) ==
    /\ whole' = w
    /\ UNCHANGED <<max_workers, per_page, force, doc, tried, reader, pg, collected, results,
                   completed, failed>>
    /\ UNCHANGED nonPipe

\* lines 1103-1109: st is the state of the document's output file
WSkipCheck(st) ==
    /\ bpc = "w_skipcheck"
    /\ IF st = "fresh" /\ ~force
       THEN Advance("skipped")
       ELSE /\ bpc' = "w_upload"
            /\ UNCHANGED <<doc, tried, reader, pg, collected, results,
                           completed, failed, whole, doc_log>>
    /\ UNCHANGED <<max_workers, per_page, force>>
    /\ UNCHANGED nonPipe

\* lines 1112-1117: client.files.upload; on an exception the except clause
\* of line 1115 is evaluated
WUpload(ok) ==
    /\ bpc = "w_upload"
    /\ IF ok
       THEN /\ bpc' = "w_generate"
            /\ doc_log' = [doc_log EXCEPT ![doc].touched = TRUE]
            /\ WholeStep([whole EXCEPT !.uploaded = TRUE])
            /\ UNCHANGED doc
       ELSE IF ExceptAPIError = "caught"
       THEN /\ Advance("upload_failed")
            /\ UNCHANGED <<max_workers, per_page, force>>
            /\ UNCHANGED nonPipe
       ELSE /\ Abort("upload_failed")
            /\ WholeStep(whole)

\* lines 1122-1178: generate_content, write of the document file, embedding
WGenerate(ok) ==
    /\ bpc = "w_generate"
    /\ bpc' = "w_finally"
    /\ WholeStep(IF ok THEN [whole EXCEPT !.written = TRUE, !.gen_ok = TRUE]
                 ELSE whole)
    /\ UNCHANGED <<doc, doc_log>>

\* lines 1179-1182: client.files.delete; then the pending exception, if any,
\* leaves the function
WFinally(ok) ==
    /\ bpc = "w_finally"
    /\ IF ok /\ (whole.gen_ok \/ ExceptAPIError = "caught")
       THEN /\ Advance(IF whole.gen_ok THEN "converted" ELSE "generate_failed")
            /\ UNCHANGED <<max_workers, per_page, force>>
            /\ UNCHANGED nonPipe
       ELSE /\ Abort(IF ~whole.gen_ok THEN "generate_failed"
                     ELSE "delete_failed")
            /\ WholeStep(IF ok THEN [whole EXCEPT !.uploaded = FALSE] ELSE whole)

\* line 878-880: the output file exists and is at least as new as the PDF
\* ("fresh"), or it is missing or older ("not_fresh")
FileStates == {"not_fresh", "fresh"}
RetryOutcomes == {"ok", "open_failed", "extract_failed"}

NextPipe ==
    \/ DocStart
    \/ \E o \in 0..MaxPages : ReadTry(o)
    \/ SkipUnreadable
    \/ Submit
    \/ \E p \in Pages : StartPage(p)
    \/ \E p \in Pages, ok \in BOOLEAN : Extract(p, ok)
    \/ \E p \in Pages, out \in RetryOutcomes : Retry(p, out)
    \/ \E p \in Pages, st \in FileStates : SkipCheck(p, st)
    \/ \E p \in Pages : Acquire(p)
    \/ \E p \in Pages, ok \in BOOLEAN : Upload(p, ok)
    \/ \E p \in Pages, ok \in BOOLEAN : Generate(p, ok)
    \/ \E p \in Pages : Sanitize(p)
    \/ \E p \in Pages, ok \in BOOLEAN : Finally(p, ok)
    \/ \E p \in Pages : Embed(p)
    \/ Collect
    \/ PoolDone
    \/ Summary
    \/ \E st \in FileStates : WSkipCheck(st)
    \/ \E ok \in BOOLEAN : WUpload(ok)
    \/ \E ok \in BOOLEAN : WGenerate(ok)
    \/ \E ok \in BOOLEAN : WFinally(ok)

RLIdle ==
    /\ clock = 0
    /\ requests = <<>>
    /\ lock = {}
    /\ rl_pc = [t \in Threads |-> "idle"]
    /\ rl_now = [t \in Threads |-> 0]
    /\ rl_wake = [t \in Threads |-> 0]
    /\ admitted = <<>>
    /\ calls = 0

InitPipe == PipeInit /\ RLIdle /\ E2EIdle /\ EmbIdle /\ BatchIdle /\ PrintIdle

SpecPipe == InitPipe /\ [][NextPipe]_vars

\* ========================================================================
\* Claims about convert_pdf_folder, checked under SpecPipe
\* ========================================================================
DocPages == {p \in Pages : p < reader.num_pages}
PageFailed(r) == r.pc = "raised" \/ (r.pc = "returned" /\ ~r.result[2])
PageSucceeded(r) == r.pc = "returned" /\ r.result[2]

\* ------------------------------------------------------------------------
\* C2  In per-page mode, once the worker pool has finished a document with
\* N pages, the supervisor's result list holds exactly one (page_index,
\* success, artifact) tuple for every page index 0..N-1, whatever the
\* outcome of each page.
\* ------------------------------------------------------------------------
C2_OneTuplePerPage ==
    bpc = "summary" =>
        /\ Len(results) = reader.num_pages
        /\ \A p \in DocPages :
            Cardinality({i \in DOMAIN results : results[i][1] = p}) = 1

\* ------------------------------------------------------------------------
\* C4  In per-page mode, when the upload or generation call of one page
\* fails, that page ends as Failed without any retry, every other page of
\* the document is still processed to a terminal state, and the document's
\* pipeline is not aborted.
\* ------------------------------------------------------------------------
C4_FailureContained ==
    per_page =>
        /\ bpc # "aborted"
        /\ \A p \in Pages :
            pg[p].cause \in {"upload", "generate"} =>
                /\ pg[p].uploads <= 1
                /\ pg[p].gens <= 1
                /\ pg[p].pc \in {"finally", "returned", "raised"}
                /\ Terminal(pg[p]) => PageFailed(pg[p])
        /\ bpc = "summary" =>
            /\ \A p \in DocPages : Terminal(pg[p])
            /\ failed = Cardinality({p \in DocPages : PageFailed(pg[p])})

\* the pool has finished a document in which one page failed at upload or
\* generation and another page succeeded
C4_Witness ==
    /\ bpc = "summary"
    /\ \E p, q \in DocPages :
        /\ pg[p].cause = "upload"
        /\ pg[p].pc = "raised"
        /\ PageSucceeded(pg[q])
        /\ pg[q].gens = 1
    /\ failed >= 1

\* ------------------------------------------------------------------------
\* C5  In whole-document mode, a failed upload or generation call for one
\* document does not propagate out of convert_pdf_folder: the failure is
\* logged for that document and every remaining document of the batch is
\* still processed.
\* ------------------------------------------------------------------------
C5_WholeDocFailureContained ==
    ~per_page =>
        ~(/\ bpc = "aborted"
          /\ doc_log[doc].status \in {"upload_failed", "generate_failed"})

\* ------------------------------------------------------------------------
\* C6  read_pdf_with_fallback tries lenient pypdf, then PyMuPDF, then strict
\* pypdf, in that order; a later strategy is attempted only if every earlier
\* one failed; it returns the handle, page count and tag of the first
\* strategy that succeeds (the tag is 'pymupdf' exactly when the second
\* strategy produced the handle) and raises only if all three fail.
\* ------------------------------------------------------------------------
C6_ReaderChain ==
    /\ Len(tried) <= 3
    /\ \A i \in DOMAIN tried :
        /\ tried[i].strategy = <<"lenient", "pymupdf", "strict">>[i]
        /\ i < Len(tried) => tried[i].pages = 0
    /\ bpc = "read" => \A i \in DOMAIN tried : tried[i].pages = 0
    /\ bpc = "read_failed" <=>
            /\ Len(tried) = 3
            /\ \A i \in DOMAIN tried : tried[i].pages = 0
    /\ reader # NoReader =>
        /\ tried # <<>>
        /\ tried[Len(tried)].pages > 0
        /\ reader.handle = tried[Len(tried)].strategy
        /\ reader.num_pages = tried[Len(tried)].pages
        /\ reader.reader_type \in {"pypdf", "pymupdf"}
        /\ reader.reader_type = "pymupdf" <=> Len(tried) = 2
    /\ (tried # <<>> /\ tried[Len(tried)].pages > 0) => reader # NoReader

\* the primary backend failed and the secondary one opened the document
C6_Witness ==
    /\ bpc = "submit"
    /\ Len(tried) = 2
    /\ tried[1].pages = 0
    /\ reader.handle = "pymupdf"
    /\ reader.reader_type = "pymupdf"
    /\ reader.num_pages = MaxPages

\* ------------------------------------------------------------------------
\* C7  When every reader strategy fails for one document in per-page mode,
\* that document alone is skipped (none of its pages is submitted to the
\* worker pool, no rate-limiter acquisition or generation call is made for
\* it) and the batch continues with the next document.
\* ------------------------------------------------------------------------
C7_UnreadableState ==
    /\ bpc = "read_failed" =>
        /\ ~doc_log[doc].touched
        /\ \A p \in Pages : pg[p] = NoPage
    /\ \A d \in Docs :
        doc_log[d].status = "unreadable" =>
            /\ ~doc_log[d].touched
            /\ doc > d
            /\ bpc # "aborted"

C7_UnreadableStep ==
    bpc = "read_failed" =>
        /\ doc' = doc + 1
        /\ bpc' = IF doc < NumDocs THEN "doc_start" ELSE "done"
        /\ doc_log'[doc] = [status |-> "unreadable", touched |-> FALSE]
        /\ \A d \in Docs \ {doc} : doc_log'[d] = doc_log[d]

C7_UnreadableSkipped == []C7_UnreadableState /\ [][C7_UnreadableStep]_vars

\* the first document was unreadable and the second one was processed
C7_Witness ==
    /\ NumDocs >= 2
    /\ doc_log[1].status = "unreadable"
    /\ doc_log[2].status = "processed"
    /\ doc_log[2].touched

\* ------------------------------------------------------------------------
\* C8  When a page's extraction through the opened handle fails: if the
\* handle's tag is 'pypdf', exactly one retry is made with PyMuPDF opened
\* from the original document path; if the tag is 'pymupdf', no retry is
\* made; if extraction still fails, that page alone is reported as
\* (page, False, None) with no rate-limiter acquisition, upload or
\* generation, and sibling pages are unaffected.
\* ------------------------------------------------------------------------
C8_PageState(p) ==
    LET r == pg[p]
        tag == reader.reader_type IN
    /\ r.retries <= 1
    /\ r.calls \in {<<>>, <<tag>>, <<"pypdf", "pymupdf">>}
    /\ r.retries = 1 => tag = "pypdf" /\ r.calls # <<>> /\ r.calls[1] = "pypdf"
    /\ tag = "pymupdf" => r.retries = 0 /\ Len(r.calls) <= 1
    /\ r.pc = "retry" => r.retries = 0 /\ tag = "pypdf"
    /\ r.cause = "extract" =>
        /\ r.pc = "returned"
        /\ r.result = <<p, FALSE, "None">>
        /\ r.acquires = 0 /\ r.uploads = 0 /\ r.gens = 0
        /\ r.retries = IF tag = "pypdf" THEN 1 ELSE 0

C8_ExtractionState == \A p \in Pages : C8_PageState(p)

C8_ExtractionStep ==
    \A p \in Pages :
        (pg[p].cause # "extract" /\ pg'[p].cause = "extract") =>
            /\ \A q \in Pages \ {p} : pg'[q] = pg[q]
            /\ bpc' = bpc
            /\ <<collected, results, completed, failed>>' =
                    <<collected, results, completed, failed>>

C8_ExtractionFallback == []C8_ExtractionState /\ [][C8_ExtractionStep]_vars

\* a pypdf document: one page failed extraction after its single retry and
\* was reported (page, False, None); a sibling page succeeded
C8_Witness ==
    /\ reader.reader_type = "pypdf"
    /\ \E p, q \in DocPages :
        /\ pg[p].cause = "extract"
        /\ pg[p].retries = 1
        /\ pg[p].result = <<p, FALSE, "None">>
        /\ PageSucceeded(pg[q])
        /\ pg[q].gens = 1

\* ========================================================================
\* convert_pdf_end_to_end.main: per-page run and assembly of one document
\*                                       convert_pdf_end_to_end.py 81-322
\* ========================================================================
\* A file name is a sequence of parts: plain words, the part "_page_", and
\* decimal numbers written as strings.
DigitStr == <<"1", "2", "3", "4", "5", "6", "7", "8", "9">>
IsNumber(s) == \E k \in DOMAIN DigitStr : DigitStr[k] = s
ToInt(s) == CHOOSE k \in DOMAIN DigitStr : DigitStr[k] = s

\* the document stems of the model: "doc", "my_page_" and "scan_page_7"
Stems == {<<"doc">>, <<"my", "_page_">>, <<"scan", "_page_", "7">>}

E2EPages == 0..(MaxDocPages - 1)

\* main.py 874: f"{pdf_file.stem}_page_{page_num + 1}.html" (Path.stem of it)
PageFileStem(stem, p) == stem \o <<"_page_", DigitStr[p + 1]>>

\* convert_pdf_end_to_end.py 167-170: re.search(r'_page_(\d+)', path.stem),
\* the leftmost match; 0 without a match
RECURSIVE PageSortKey(_)
PageSortKey(name) ==
    IF Len(name) < 2 THEN 0
    ELSE IF name[1] = "_page_" /\ IsNumber(name[2]) THEN ToInt(name[2])
    ELSE PageSortKey(Tail(name))

\* sorted(..., key=page_sort_key): a stable sort
RECURSIVE InsertByKey(_, _)
InsertByKey(x, sorted) ==
    IF sorted = <<>> THEN <<x>>
    ELSE IF PageSortKey(Head(sorted).name) <= PageSortKey(x.name)
         THEN <<Head(sorted)>> \o InsertByKey(x, Tail(sorted))
         ELSE <<x>> \o sorted

RECURSIVE SortedByKey(_)
SortedByKey(seq) ==
    IF seq = <<>> THEN <<>>
    ELSE InsertByKey(seq[Len(seq)], SortedByKey(SubSeq(seq, 1, Len(seq) - 1)))

\* the orders in which a directory listing may yield the files of seq
Listings(seq) ==
    {l \in [DOMAIN seq -> DOMAIN seq] :
        \A i, j \in DOMAIN seq : i # j => l[i] # l[j]}

\* what the <html> tag of a page file declares: nothing (no tag, or a tag
\* without the attributes), or the language and direction that main.py's
\* ensure_html_lang_dir has set (main.py 940); "" stands for None
PageAttrs == {[lang |-> "", dir |-> ""],
              [lang |-> "ar", dir |-> "rtl"],
              [lang |-> "fr", dir |-> "ltr"]}

\* lines 198-209: page_lang and page_dir, read out of the <html> tag of the
\* page file f; lines 222-229: the div of the page with these attributes
PageDiv(f) ==
    [page |-> f.page, lang |-> f.lang, dir |-> f.dir]

\* lines 212-216: the first page file of the sorted list sets the document
\* defaults
DocumentAttrs(files) ==
    [lang |-> IF files[1].lang # "" THEN files[1].lang ELSE DocDefault.lang,
     dir |-> IF files[1].dir # "" THEN files[1].dir ELSE DocDefault.dir]

E2EInit ==
    /\ e_pc = "main_py"
    /\ e_stem \in Stems
    /\ e_n \in 1..MaxDocPages
    /\ e_done = {}
    /\ e_dir = <<>>
    /\ e_glob = <<>>
    /\ e_divs = <<>>
    /\ e_doc = DocDefault

\* inside main.py the workers finish in any order; a page whose generation
\* succeeded has written its page file (main.py 874-875, 942-943)
E_PageDone(p, persisted, attrs) ==
    /\ e_pc = "main_py"
    /\ p < e_n
    /\ p \notin e_done
    /\ e_done' = e_done \cup {p}
    /\ e_dir' = IF persisted
                THEN Append(e_dir, [name |-> PageFileStem(e_stem, p), page |-> p,
                                    lang |-> attrs.lang, dir |-> attrs.dir])
                ELSE e_dir
    /\ persisted \/ attrs.lang = ""
    /\ UNCHANGED <<e_pc, e_stem, e_n, e_glob, e_divs, e_doc>>
    /\ UNCHANGED nonE2E

\* lines 150-172: main.py has exited; the page files are listed
E_Glob ==
    /\ e_pc = "main_py"
    /\ e_done = {p \in E2EPages : p < e_n}
    /\ \E l \in Listings(e_dir) :
        e_glob' = [i \in DOMAIN e_dir |-> e_dir[l[i]]]
    /\ e_pc' = IF e_dir = <<>> THEN "no_html" ELSE "assemble"
    /\ UNCHANGED <<e_stem, e_n, e_done, e_dir, e_divs, e_doc>>
    /\ UNCHANGED nonE2E

\* lines 172-233: page_files = sorted(glob, key=page_sort_key); one div per
\* page file, in that order
E_Assemble ==
    /\ e_pc = "assemble"
    /\ LET page_files == SortedByKey(e_glob) IN
        /\ e_divs' = [i \in DOMAIN page_files |-> PageDiv(page_files[i])]
        /\ e_doc' = DocumentAttrs(page_files)
    /\ e_pc' = "assembled"
    /\ UNCHANGED <<e_stem, e_n, e_done, e_dir, e_glob>>
    /\ UNCHANGED nonE2E

NextE2E ==
    \/ \E p \in E2EPages, persisted \in BOOLEAN, attrs \in PageAttrs :
        E_PageDone(p, persisted, attrs)
    \/ E_Glob
    \/ E_Assemble

InitE2E == E2EInit /\ RLIdle /\ PipeIdle /\ EmbIdle /\ BatchIdle /\ PrintIdle

SpecE2E == InitE2E /\ [][NextE2E]_vars

\* ------------------------------------------------------------------------
\* C3  For a document processed per-page, the assembled document contains
\* exactly one page region for each successfully persisted page and these
\* regions appear in strictly ascending page index, whatever the order in
\* which the workers completed.
\* ------------------------------------------------------------------------
PersistedPages == {e_dir[i].page : i \in DOMAIN e_dir}

C3_RegionsAscending ==
    e_pc = "assembled" =>
        /\ Len(e_divs) = Cardinality(PersistedPages)
        /\ \A p \in PersistedPages :
            Cardinality({i \in DOMAIN e_divs : e_divs[i].page = p}) = 1
        /\ \A i, j \in DOMAIN e_divs :
            i < j => e_divs[i].page < e_divs[j].page

\* the same, for documents whose stem holds no "_page_<number>" part
C3_RegionsAscendingPlainStem ==
    PageSortKey(e_stem) = 0 => C3_RegionsAscending

\* ========================================================================
\* embed_images_inline                                   main.py 662-821
\* ========================================================================

\* most images the manifest lists for one call
MaxImages == 2
\* most placeholder tokens in the generated markup of one file
MaxTokens == 2
\* most calls of the resolver on one file
MaxRuns == 2

\* The j-th image file of the call has the file stem FigNames[j]; the id an
\* image declares in the manifest is free.
FigNames == <<"fig_1", "fig_2", "fig_3", "fig_4">>
Ids == {"fig_1", "fig_2"}
Mismatch == "zzz"
TokenIds == Ids \cup {Mismatch}
AutoCaption == "Image extracted from page"
Descriptions == {"", AutoCaption, "A chart"}

\* one image of the manifest: found says whether lines 710-729 find and copy
\* its file.  The description of an image whose file is missing is never
\* read (the loop goes on to the next image at lines 723 and 729), so one
\* value stands for it.
Images ==
    {img \in [id : Ids, description : Descriptions, found : BOOLEAN] :
        ~img.found => img.description = ""}
\* page_num is None (0) for a whole document, else the 1-based page
PageNumArgs == {0, 3}
\* the page number inside the image file names: that of the page, or another
\* one when the stem of the document itself holds "page_<number>"; it is
\* read only when page_num is given (line 777)
InferredPages == {3, 7}

SeqsUpTo(S, n) == UNION {[1..k -> S] : k \in 0..n}
RangeOf(q) == {q[i] : i \in DOMAIN q}
MaxOf(S) == CHOOSE x \in S : \A y \in S : y <= x

\* ---- markup items -------------------------------------------------------
Item(k, i, id, src, cap) ==
    [k |-> k, i |-> i, id |-> id, src |-> src, cap |-> cap, figs |-> <<>>]
\* generated markup that is no token; i tells the chunks apart
Text(i) == Item("text", i, "", 0, "")
\* a placeholder token as written by the generation step, with id `id`
Token(i, id) == Item("token", i, id, 0, "")
\* the generated markup of a file whose tokens carry the ids toks, in order
Markup(toks) ==
    [n \in 1..(2 * Len(toks) + 1) |->
        IF n % 2 = 1 THEN Text((n + 1) \div 2)
        ELSE Token(n \div 2, toks[n \div 2])]
\* the matches pattern.subn finds, in order (line 765)
Tokens(h) == SelectSeq(h, LAMBDA x : x.k = "token")

\* ---- lines 703-750: the maps built from the manifest ---------------------
\* an entry is the position of its image in the manifest
all_images_ordered ==
    SelectSeq([j \in 1..Len(manifest) |-> j], LAMBDA j : manifest[j].found)

\* line 740: a later image with the same id replaces the earlier one
img_map(iid) ==
    LET js == {j \in RangeOf(all_images_ordered) : manifest[j].id = iid}
    IN  IF js = {} THEN 0 ELSE MaxOf(js)

\* line 741
filename_map(iid) ==
    LET js == {j \in RangeOf(all_images_ordered) : FigNames[j] = iid}
    IN  IF js = {} THEN 0 ELSE MaxOf(js)

\* lines 742-749: the extractor's manifest gives no page per image, so the
\* page is the one read out of the file name
images_by_page ==
    [p \in (IF all_images_ordered = <<>> THEN {} ELSE {inferred_page}) |->
        all_images_ordered]

\* lines 731-738: the caption text of an entry
Desc(img) ==
    LET d == IF img.description # "" THEN img.description ELSE img.id
    IN  IF d = AutoCaption THEN "" ELSE d

\* lines 790-795 and 810-814: the reference written for entry e; cap = ""
\* stands for a figure without figcaption element
Figure(e) == Item("figure", 0, "", e, Desc(manifest[e]))

\* lines 808-815: the Extracted Figures section
SectionReversed ==
    [Item("section", 0, "", 0, "") EXCEPT
        !.figs = [n \in 1..Len(all_images_ordered) |->
                    Figure(all_images_ordered[Len(all_images_ordered) + 1 - n])]]

Section ==
    [Item("section", 0, "", 0, "") EXCEPT
        !.figs = [n \in 1..Len(all_images_ordered) |->
                    Figure(all_images_ordered[n])]]

\* the file name stem is tried before the declared id (mutant of Lookup)
LookupStemFirst(iid) ==
    IF filename_map(iid) # 0 THEN [step |-> "stem", e |-> filename_map(iid)]
    ELSE IF img_map(iid) # 0 THEN [step |-> "id", e |-> img_map(iid)]
    ELSE [step |-> "none", e |-> 0]

\* lines 769-786: the entry _repl finds for the id iid, and the step that
\* found it; the positional step reads the next entry at page_counters, the
\* global one the next entry at global_counter
Lookup(iid) ==
    IF img_map(iid) # 0 THEN [step |-> "id", e |-> img_map(iid)]
    ELSE IF filename_map(iid) # 0
         THEN [step |-> "stem", e |-> filename_map(iid)]
    ELSE IF /\ page_num # 0
            /\ page_num \in DOMAIN images_by_page
            /\ page_counters[page_num] < Len(images_by_page[page_num])
         THEN [step |-> "page",
               e |-> images_by_page[page_num][page_counters[page_num] + 1]]
    ELSE IF global_counter < Len(all_images_ordered)
         THEN [step |-> "global", e |-> all_images_ordered[global_counter + 1]]
    ELSE [step |-> "none", e |-> 0]

\* lines 787-795: what _repl returns for a match whose lookup gave m; a match
\* without entry is returned as it stands
ReplOutDropsToken(tok, m) ==
    IF m.e = 0 THEN Text(0) ELSE Figure(m.e)

ReplOut(tok, m) ==
    IF m.e = 0 THEN tok ELSE Figure(m.e)

\* line 797: new_html, every match replaced by what _repl returned for it
SubnKeepsMatchesOnly(h, r) ==
    [n \in 1..Len(r) |-> r[n].out]

Subn(h, r) ==
    [n \in 1..Len(h) |->
        IF h[n].k = "token"
        THEN r[Cardinality({m \in 1..n : h[m].k = "token"})].out
        ELSE h[n]]

\* lines 958-968: the call is made only with success set, any exception of
\* the resolver is caught, and the page is returned with success unchanged
CallerReturn == <<page_num, TRUE>>

EmbInit ==
    /\ manifest_state \in {"missing", "unparseable", "ok"}
    /\ manifest \in IF manifest_state = "ok"
                    THEN SeqsUpTo(Images, MaxImages) ELSE {<<>>}
    /\ page_num \in PageNumArgs
    /\ inferred_page \in IF page_num = 0 THEN InferredPages \cap PageNumArgs
                                        ELSE InferredPages
    /\ \E toks \in SeqsUpTo(TokenIds, MaxTokens) : out_file = Markup(toks)
    /\ html = <<>>
    /\ emb_pc = "ready"
    /\ emb_runs = 0
    /\ page_counters = <<>>
    /\ global_counter = 0
    /\ repl = <<>>
    /\ emb_last = "none"
    /\ emb_result = <<>>

\* a call that returns before the maps are built
EarlyReturnAppends(how) ==
    /\ emb_pc = "ready"
    /\ emb_runs < MaxRuns
    /\ emb_runs' = emb_runs + 1
    /\ html' = out_file
    /\ out_file' = Append(out_file, Item("section", 0, "", 0, ""))
    /\ emb_last' = how
    /\ emb_result' = CallerReturn
    /\ UNCHANGED <<manifest_state, manifest, page_num, inferred_page,
                   emb_pc, page_counters, global_counter, repl>>
    /\ UNCHANGED nonEmb

EarlyReturn(how) ==
    /\ emb_pc = "ready"
    /\ emb_runs < MaxRuns
    /\ emb_runs' = emb_runs + 1
    /\ html' = out_file
    /\ emb_last' = how
    /\ emb_result' = CallerReturn
    /\ UNCHANGED <<manifest_state, manifest, page_num, inferred_page, out_file,
                   emb_pc, page_counters, global_counter, repl>>
    /\ UNCHANGED nonEmb

\* lines 672-679: the manifest is missing or cannot be parsed
LoadFails ==
    /\ manifest_state # "ok"
    /\ EarlyReturn("no_manifest")

\* lines 681-694: the manifest lists no image for the call
NoImages ==
    /\ manifest_state = "ok"
    /\ manifest = <<>>
    /\ EarlyReturn("no_images")

\* lines 696-762: the maps are built, the file is read, the counters start
CollectImages ==
    /\ emb_pc = "ready"
    /\ emb_runs < MaxRuns
    /\ manifest_state = "ok"
    /\ manifest # <<>>
    /\ emb_runs' = emb_runs + 1
    /\ html' = out_file
    /\ page_counters' = [p \in DOMAIN images_by_page |-> 0]
    /\ global_counter' = 0
    /\ repl' = <<>>
    /\ emb_pc' = "subn"
    /\ emb_result' = <<>>
    /\ UNCHANGED <<manifest_state, manifest, page_num, inferred_page, out_file,
                   emb_last>>
    /\ UNCHANGED nonEmb

\* lines 767-795: _repl on the next match
Repl ==
    /\ emb_pc = "subn"
    /\ Len(repl) < Len(Tokens(html))
    /\ LET tok == Tokens(html)[Len(repl) + 1]
           m == Lookup(tok.id)
       IN  /\ repl' = Append(repl, [tok |-> tok, step |-> m.step, e |-> m.e,
                                    out |-> ReplOut(tok, m)])
           /\ page_counters' =
                IF m.step = "page"
                THEN [page_counters EXCEPT ![page_num] = @ + 1]
                ELSE page_counters
           /\ global_counter' =
                IF m.step = "global" THEN global_counter + 1
                ELSE global_counter
    /\ UNCHANGED <<manifest_state, manifest, page_num, inferred_page, out_file,
                   html, emb_pc, emb_runs, emb_last, emb_result>>
    /\ UNCHANGED nonEmb

\* lines 797-803: n > 0, the file is rewritten and the call returns
WriteReplaced ==
    /\ emb_pc = "subn"
    /\ Len(repl) = Len(Tokens(html))
    /\ Len(repl) > 0
    /\ out_file' = Subn(html, repl)
    /\ emb_pc' = "ready"
    /\ emb_last' = "replaced"
    /\ emb_result' = CallerReturn
    /\ UNCHANGED <<manifest_state, manifest, page_num, inferred_page, html,
                   emb_runs, page_counters, global_counter, repl>>
    /\ UNCHANGED nonEmb

\* lines 807-821: n = 0, the Extracted Figures section is appended
AppendFigures ==
    /\ emb_pc = "subn"
    /\ Tokens(html) = <<>>
    /\ out_file' = Append(html, Section)
    /\ emb_pc' = "ready"
    /\ emb_last' = "appended"
    /\ emb_result' = CallerReturn
    /\ UNCHANGED <<manifest_state, manifest, page_num, inferred_page, html,
                   emb_runs, page_counters, global_counter, repl>>
    /\ UNCHANGED nonEmb

NextEmb ==
    \/ LoadFails
    \/ NoImages
    \/ CollectImages
    \/ Repl
    \/ WriteReplaced
    \/ AppendFigures

InitEmb == EmbInit /\ RLIdle /\ PipeIdle /\ E2EIdle /\ BatchIdle /\ PrintIdle

SpecEmb == InitEmb /\ [][NextEmb]_vars

\* ------------------------------------------------------------------------
\* Claims about embed_images_inline
\* ------------------------------------------------------------------------
\* the entries _repl has substituted for the matches handled so far
Consumed == {repl[m].e : m \in DOMAIN repl} \ {0}

\* image j is referenced by the file: inline or inside a section
Referenced(j) ==
    \E n \in DOMAIN out_file :
        \/ out_file[n].k = "figure" /\ out_file[n].src = j
        \/ \E f \in DOMAIN out_file[n].figs : out_file[n].figs[f].src = j

\* image j is listed by an Extracted Figures section that ends the file
InTrailingSection(j) ==
    /\ out_file # <<>>
    /\ LET last == out_file[Len(out_file)]
       IN  /\ last.k = "section"
           /\ \E f \in DOMAIN last.figs : last.figs[f].src = j

\* the first call has finished on markup that holds tokens, every image of
\* the manifest has its file, and some image has no token of its id
PartialTokens ==
    /\ emb_pc = "ready"
    /\ emb_runs = 1
    /\ emb_last \in {"replaced", "appended"}
    /\ Tokens(html) # <<>>
    /\ \A j \in DOMAIN manifest : manifest[j].found
    /\ \E j \in DOMAIN manifest :
        \A n \in DOMAIN html :
            html[n].k = "token" => html[n].id # manifest[j].id

\* C9  After the resolver has run on a page whose markup holds tokens for
\* only some of the page's manifest images, every manifest image of the page
\* is referenced in the output: the images that no token consumed are listed
\* in a trailing extracted-figures section.
C9_UnconsumedListed ==
    PartialTokens =>
        \A j \in DOMAIN manifest :
            /\ Referenced(j)
            /\ j \notin Consumed => InTrailingSection(j)

\* C10  When a token's id matches no manifest entry by declared id or by
\* filename stem, and exactly one region of the page has not yet been
\* substituted for any token, the resolver substitutes that remaining region
\* for the token, also when the page's other regions were consumed earlier
\* by exact-id or filename-stem matches.
C10_PositionalPicksRemaining ==
    \A k \in DOMAIN repl :
        LET prior == {repl[m].e : m \in 1..(k - 1)}
            rest == RangeOf(all_images_ordered) \ prior
        IN  ( /\ page_num # 0
              /\ page_num \in DOMAIN images_by_page
              /\ img_map(repl[k].tok.id) = 0
              /\ filename_map(repl[k].tok.id) = 0
              /\ Cardinality(rest) = 1 )
            => repl[k].e \in rest

\* the same, for a token that no earlier id or stem match precedes: there
\* the positional counter does point at the one region that is left
C10_PositionalAfterFallbacksOnly ==
    \A k \in DOMAIN repl :
        LET prior == {repl[m].e : m \in 1..(k - 1)}
            rest == RangeOf(all_images_ordered) \ prior
        IN  ( /\ page_num # 0
              /\ page_num \in DOMAIN images_by_page
              /\ \A m \in 1..k : repl[m].step \notin {"id", "stem"}
              /\ img_map(repl[k].tok.id) = 0
              /\ filename_map(repl[k].tok.id) = 0
              /\ Cardinality(rest) = 1 )
            => repl[k].e \in rest

\* C11  Running the resolver again, with the same manifest, on a page file
\* that holds no remaining placeholder token (for instance the output of a
\* first run that substituted every token) leaves the file unchanged.
C11_RerunNoOp ==
    ( /\ emb_pc = "ready"
      /\ emb_runs >= 2
      /\ Tokens(html) = <<>>
      /\ \E n \in DOMAIN html : html[n].k = "figure" )
    => out_file = html

\* the n-th item of html is a token and is the r-th match of the call
MatchAt(n) == Cardinality({m \in 1..n : html[m].k = "token"})

\* the last call substituted: repl and html are those of that call
Substituted ==
    /\ emb_pc = "ready"
    /\ emb_last = "replaced"
    /\ Len(out_file) = Len(html)

\* C12  A token for which none of the four matching steps (declared id,
\* filename stem, positional, global) yields a region is left in the output
\* exactly as it appeared in the input; it is never deleted or altered.
C12_UnmatchedTokenKept ==
    /\ \A k \in DOMAIN repl : repl[k].step = "none" => repl[k].out = repl[k].tok
    /\ (emb_pc = "ready" /\ emb_last = "replaced") =>
        /\ Len(out_file) = Len(html)
        /\ \A n \in DOMAIN html :
            (html[n].k = "token" /\ repl[MatchAt(n)].step = "none")
                => out_file[n] = html[n]

C12_Witness ==
    /\ Substituted
    /\ \E n \in DOMAIN html :
        /\ html[n].k = "token"
        /\ repl[MatchAt(n)].step = "none"
        /\ out_file[n] = html[n]
        /\ all_images_ordered # <<>>

\* a call that found images in the manifest has finished on markup without
\* any token
NoTokenCallDone ==
    /\ emb_pc = "ready"
    /\ emb_last \in {"replaced", "appended"}
    /\ manifest_state = "ok"
    /\ manifest # <<>>
    /\ Tokens(html) = <<>>

\* the file is what the call read plus one section at its end, which lists
\* exactly the images of the set js, in manifest order
OneSectionAppended(js) ==
    /\ Len(out_file) = Len(html) + 1
    /\ SubSeq(out_file, 1, Len(html)) = html
    /\ LET last == out_file[Len(out_file)]
       IN  /\ last.k = "section"
           /\ {last.figs[f].src : f \in DOMAIN last.figs} = js
           /\ \A f, g \in DOMAIN last.figs :
                f < g => last.figs[f].src < last.figs[g].src

\* C13 (as stated)  When the page markup holds no placeholder token and the
\* manifest lists at least one image for the page, the resolver appends
\* exactly one trailing extracted-figures section that lists all of the
\* page's images in manifest order, and leaves the markup before it unchanged.
C13_SectionListsAll ==
    NoTokenCallDone => OneSectionAppended(DOMAIN manifest)

\* C13 (amended)  ... the section lists, in manifest order, all of the page's
\* images whose file was found and copied.
C13_SectionListsFound ==
    NoTokenCallDone =>
        OneSectionAppended({j \in DOMAIN manifest : manifest[j].found})

C13_Witness ==
    /\ NoTokenCallDone
    /\ emb_runs = 1
    /\ Len(html) > 0
    /\ Len(out_file[Len(out_file)].figs) = 2

\* C14  Every resolver run keeps all generated markup that lies outside
\* placeholder tokens, in its original order: the output is the input with
\* tokens substituted in place and/or one section appended at the end;
\* nothing else is removed, reordered or rewritten.
C14_MarkupKept ==
    emb_runs >= 1 =>
        /\ Len(out_file) \in {Len(html), Len(html) + 1}
        /\ \A n \in DOMAIN html :
            IF html[n].k = "token"
            THEN out_file[n] = html[n] \/ out_file[n].k = "figure"
            ELSE out_file[n] = html[n]
        /\ Len(out_file) = Len(html) + 1 =>
            out_file[Len(out_file)].k = "section"

C14_Witness ==
    /\ emb_pc = "ready"
    /\ emb_runs = 2
    /\ emb_last = "appended"
    /\ \E n \in DOMAIN html : html[n].k = "figure" /\ out_file[n] = html[n]
    /\ \E n \in DOMAIN html : html[n].k = "text" /\ out_file[n] = html[n]
    /\ Len(out_file) = Len(html) + 1

\* C15  A substituted image reference carries a caption element exactly when
\* the matched region's description is non-empty: a region whose manifest
\* description is empty, absent, or the auto-generated boilerplate text
\* yields a reference without any caption element.
C15_CaptionIffDescription ==
    \A k \in DOMAIN repl :
        repl[k].e # 0 =>
            ( repl[k].out.cap # "" <=>
              manifest[repl[k].e].description \notin {"", AutoCaption} )

\* the same without the empty and absent descriptions: the boilerplate text
\* is dropped and a real description is kept
C15_CaptionForGivenDescription ==
    \A k \in DOMAIN repl :
        (repl[k].e # 0 /\ manifest[repl[k].e].description # "") =>
            ( repl[k].out.cap # "" <=>
              manifest[repl[k].e].description # AutoCaption )

\* C16  When the manifest file is missing, cannot be parsed, or lists no
\* image for the page, the resolver leaves the persisted page markup
\* unchanged and the page is still reported as succeeded.
C16_NoImagesNoChange ==
    ( /\ emb_runs >= 1
      /\ manifest_state # "ok" \/ manifest = <<>> )
    => /\ emb_pc = "ready"
       /\ emb_last \in {"no_manifest", "no_images"}
       /\ out_file = html
       /\ \A n \in DOMAIN out_file : out_file[n].k \in {"text", "token"}
       /\ emb_result = <<page_num, TRUE>>

C16_Witness ==
    /\ emb_runs = 2
    /\ manifest_state = "unparseable"
    /\ Tokens(out_file) # <<>>
    /\ emb_result = <<page_num, TRUE>>
    /\ page_num # 0

\* ------------------------------------------------------------------------
\* Further claims about the RateLimiter
\* ------------------------------------------------------------------------
\* C17  Under fair scheduling, when more threads call acquire() concurrently
\* than max_requests allows in one window, every caller's acquire()
\* eventually returns; no caller waits forever.
C17_AcquireReturns ==
    \A t \in Threads : (rl_pc[t] # "idle") ~> (rl_pc[t] = "idle")

\* the window is full, one caller sleeps inside the mutex and another caller
\* waits for the mutex
C17_Witness ==
    /\ Len(requests) >= MaxRequests
    /\ \E t, u \in Threads :
        /\ rl_pc[t] = "sleeping"
        /\ rl_pc[u] = "wait_lock"

\* the admissions that lie within the trailing window at time now
InWindow(now) == {i \in DOMAIN admitted : admitted[i].at > now - TimeWindow}

\* C18  acquire() returns without sleeping whenever fewer than max_requests
\* admissions lie within the trailing time_window at the moment the caller
\* obtains the mutex; in particular the first max_requests calls on a fresh
\* limiter are all admitted immediately and only the calls beyond them wait.
C18_NoSleepBelowLimit ==
    /\ \A t \in Threads :
        rl_pc[t] = "sleeping" =>
            Cardinality(InWindow(rl_now[t])) >= MaxRequests
    /\ \A i \in DOMAIN admitted :
        admitted[i].slept => i > MaxRequests

\* a call after the window has emptied is admitted at once, and a call into
\* a full window has slept
C18_Witness ==
    /\ Len(admitted) > MaxRequests
    /\ \E i \in DOMAIN admitted : i > MaxRequests /\ ~admitted[i].slept
    /\ \E i \in DOMAIN admitted : admitted[i].slept

\* ------------------------------------------------------------------------
\* Further claims about convert_pdf_folder
\* ------------------------------------------------------------------------
\* the count the summary line of line 1095 prints as succeeded
SummarySucceeded == completed - failed

\* C19  For each document processed per-page, the final summary's succeeded
\* count equals the number of pages that ended Persisted, and succeeded plus
\* failed equals the page count N, for every combination of page outcomes
\* including workers that end by raising an exception.
C19_SummaryCounts ==
    bpc = "summary" =>
        /\ SummarySucceeded =
            Cardinality({p \in DocPages : PageSucceeded(pg[p])})
        /\ SummarySucceeded + failed = reader.num_pages

\* the same for documents none of whose workers raised
C19_SummaryCountsNoRaise ==
    (bpc = "summary" /\ \A p \in DocPages : pg[p].pc = "returned") =>
        /\ SummarySucceeded =
            Cardinality({p \in DocPages : PageSucceeded(pg[p])})
        /\ SummarySucceeded + failed = reader.num_pages

\* ------------------------------------------------------------------------
\* Further claims about the assembly of the end-to-end wrapper
\* ------------------------------------------------------------------------
\* the page file of the persisted page p
PageFile(p) == e_dir[CHOOSE i \in DOMAIN e_dir : e_dir[i].page = p]

LowestPersisted == CHOOSE p \in PersistedPages : \A q \in PersistedPages : p <= q

\* every region carries the lang and dir of its own page file
RegionsCarryOwnAttrs ==
    \A i \in DOMAIN e_divs :
        /\ e_divs[i].page \in PersistedPages
        /\ e_divs[i].lang = PageFile(e_divs[i].page).lang
        /\ e_divs[i].dir = PageFile(e_divs[i].page).dir

\* the document-level lang and dir are those of the page file f, en / ltr
\* where it declares none
DocAttrsFrom(f) ==
    /\ e_doc.lang = IF f.lang = "" THEN "en" ELSE f.lang
    /\ e_doc.dir = IF f.dir = "" THEN "ltr" ELSE f.dir

\* C20  In the assembled document every page region carries the lang and dir
\* declared by its own page file (and no such attribute when the page file
\* declares none), independently of the other pages; the document-level lang
\* and dir equal those of the lowest-indexed persisted page, defaulting to
\* en / ltr when that page declares none.
C20_LangDir ==
    e_pc = "assembled" =>
        /\ RegionsCarryOwnAttrs
        /\ DocAttrsFrom(PageFile(LowestPersisted))

\* the same, for documents whose stem holds no "_page_<number>" part
C20_LangDirPlainStem ==
    PageSortKey(e_stem) = 0 => C20_LangDir

\* the regions alone, for every document
C20_RegionsOnly ==
    e_pc = "assembled" => RegionsCarryOwnAttrs

\* the page has left the extraction phase with a page file to work on
Extracted(r) == r.pre # "unknown"

\* a skipped page: reported as succeeded, no acquisition, upload or
\* generation, output file not written
SkippedUntouched(p) ==
    /\ pg[p].pc = "returned"
    /\ pg[p].result = <<p, TRUE, "output_filepath">>
    /\ pg[p].acquires = 0
    /\ pg[p].uploads = 0
    /\ pg[p].gens = 0
    /\ ~pg[p].written

C22_AtMostOneCall ==
    \A p \in DocPages :
        /\ pg[p].uploads <= 1
        /\ pg[p].gens <= 1
        /\ pg[p].cause = "upload" =>
            (Terminal(pg[p]) /\ pg[p].uploads = 1 /\ pg[p].gens = 0)
        /\ pg[p].cause = "generate" =>
            (pg[p].pc # "generate" /\ pg[p].uploads = 1 /\ pg[p].gens = 1)

C22_Witness ==
    \E p, q \in DocPages :
        /\ pg[p].cause = "generate"
        /\ Terminal(pg[p])
        /\ pg[p].gens = 1
        /\ pg[q].cause = "upload"
        /\ Terminal(pg[q])
        /\ pg[q].uploads = 1

\* C23  In per-page mode every upload or generation call for a page is
\* preceded by exactly one completed acquire() on the document's shared
\* RateLimiter, made by the same worker for that page, and no acquire() is
\* made before or during page extraction.
C23_AcquireBeforeCalls ==
    \A p \in DocPages :
        /\ pg[p].acquires <= 1
        /\ (pg[p].uploads >= 1 \/ pg[p].gens >= 1 \/ pg[p].pc = "upload")
            => pg[p].acquires = 1
        /\ (pg[p].pc \in {"queued", "extract", "retry", "skipcheck"}
            \/ pg[p].cause = "extract") => pg[p].acquires = 0

C23_Witness ==
    /\ per_page
    /\ \E p, q \in DocPages :
        /\ pg[p].gens = 1
        /\ pg[p].acquires = 1
        /\ pg[q].cause = "extract"
        /\ pg[q].acquires = 0

\* C24 (as stated)  For a 25-page document with max_workers = 3 and
\* requests_per_minute = 10, the 11th generation call is not admitted earlier
\* than (25/10 - 1) * 60 = 90 seconds after the pipeline started.  In the
\* units of the model: the admission after the first MaxRequests ones is not
\* earlier than one and a half TimeWindow after time 0.
C24_EleventhAfterNinety ==
    Len(admitted) > MaxRequests =>
        2 * admitted[MaxRequests + 1].at >= 3 * TimeWindow

\* C24 (amended)  ... the 11th generation call is not admitted earlier than
\* 60 seconds, one time_window, after the first one was admitted (and so not
\* earlier than 60 seconds after the pipeline started).
C24_EleventhAfterWindow ==
    Len(admitted) > MaxRequests =>
        /\ admitted[MaxRequests + 1].at >= admitted[1].at + TimeWindow
        /\ admitted[MaxRequests + 1].at >= TimeWindow

\* the admission after the first MaxRequests ones, made exactly one window
\* after the first and before one and a half windows have passed
C24_Witness ==
    /\ Len(admitted) > MaxRequests
    /\ admitted[MaxRequests + 1].at = admitted[1].at + TimeWindow
    /\ 2 * admitted[MaxRequests + 1].at < 3 * TimeWindow
    /\ admitted[MaxRequests + 1].slept


\* ========================================================================
\* convert_pdf_end_to_end.main over a batch, and convert_to_formats.main
\*            convert_pdf_end_to_end.py 33-48, 76-322; convert_to_formats.py
\* ========================================================================
\* --formats docx epub (convert_pdf_end_to_end.py 309)
Formats == <<"docx", "epub">>

\* a printed line: what it says and, where it names one, the format
L(text) == <<text, "">>

\* run(), lines 42-43: every line the child writes is printed as it arrives
RunSwallows(lines) == <<>>

RunStreams(lines) == lines

\* run(), lines 44-48: the child's exit code decides what run returns
RunReturn(returncode) ==
    IF returncode # 0 THEN [lines |-> <<L("process_exited_with_code")>>, ok |-> FALSE]
    ELSE [lines |-> <<>>, ok |-> TRUE]

\* convert_to_formats.run_pandoc, lines 251-256: what it prints for a format
PandocLines(fmt, ok) ==
    IF ok THEN <<<<"running_pandoc", fmt>>>>
    ELSE <<<<"running_pandoc", fmt>>, <<"pandoc_failed", fmt>>>>

\* convert_to_formats.main, lines 361-365: the report of the list `results`
ReportLines(res) ==
    [i \in DOMAIN res |->
        IF res[i].ok THEN <<"written", res[i].fmt>> ELSE <<"failed", res[i].fmt>>]

BatchInit ==
    /\ b_i = 1
    /\ b_pc = "loop"
    /\ b_k = 1
    /\ b_results = <<>>
    /\ b_out = [d \in Docs |-> <<>>]
    /\ b_conv = [d \in Docs |-> NoConv]

Says(d, lines) == b_out' = [b_out EXCEPT ![d] = @ \o lines]

\* convert_pdf_end_to_end.py 81-160: the iteration of a document up to the
\* copy of its HTML: skipped as already converted, main.py failed, no HTML
\* found, or the HTML is placed in the document folder
B_Html(how) ==
    /\ b_pc = "loop"
    /\ b_i <= NumDocs
    /\ Says(b_i, <<L("processing"), L(how)>>)
    /\ IF how = "html"
       THEN b_pc' = "convert" /\ b_i' = b_i
       ELSE b_pc' = "loop" /\ b_i' = b_i + 1
    /\ UNCHANGED <<b_k, b_results, b_conv>>
    /\ UNCHANGED nonBatch

\* lines 309-322 with run at 33-41: Popen fails to start the converter
B_NoStart ==
    /\ b_pc = "convert"
    /\ Says(b_i, <<L("running"), L("failed_to_start_process"), L("convert_failed")>>)
    /\ b_conv' = [b_conv EXCEPT ![b_i] =
                    [how |-> "no_start", results |-> <<>>, returned |-> "False"]]
    /\ b_pc' = "loop"
    /\ b_i' = b_i + 1
    /\ UNCHANGED <<b_k, b_results>>
    /\ UNCHANGED nonBatch

\* convert_to_formats.py 280-282: pandoc is not on the PATH, the converter
\* exits with code 3; the wrapper's lines 318-321
B_NoPandoc ==
    /\ b_pc = "convert"
    /\ LET r == RunReturn(3) IN
        /\ Says(b_i, <<L("running")>> \o RunStreams(<<L("pandoc_not_found")>>) \o r.lines
                     \o (IF r.ok THEN <<L("finished")>> ELSE <<L("convert_failed")>>))
        /\ b_conv' = [b_conv EXCEPT ![b_i] =
                        [how |-> "no_pandoc", results |-> <<>>, returned |-> IF r.ok THEN "True" ELSE "False"]]
    /\ b_pc' = "loop"
    /\ b_i' = b_i + 1
    /\ UNCHANGED <<b_k, b_results>>
    /\ UNCHANGED nonBatch

\* convert_to_formats.py 284-341: the converter starts its work
B_Started ==
    /\ b_pc = "convert"
    /\ Says(b_i, <<L("running")>>)
    /\ b_pc' = "formats"
    /\ b_k' = 1
    /\ b_results' = <<>>
    /\ UNCHANGED <<b_i, b_conv>>
    /\ UNCHANGED nonBatch

\* convert_to_formats.py 342-359: one turn of `for fmt in args.formats`
B_Pandoc(ok) ==
    /\ b_pc = "formats"
    /\ b_k <= Len(Formats)
    /\ Says(b_i, RunStreams(PandocLines(Formats[b_k], ok)))
    /\ b_results' = Append(b_results, [fmt |-> Formats[b_k], ok |-> ok])
    /\ b_k' = b_k + 1
    /\ UNCHANGED <<b_i, b_pc, b_conv>>
    /\ UNCHANGED nonBatch

\* convert_to_formats.py 361-365: the report, then the converter ends with
\* exit code 0; the wrapper's lines 318-322
B_Report ==
    /\ b_pc = "formats"
    /\ b_k > Len(Formats)
    /\ LET r == RunReturn(0) IN
        /\ Says(b_i, RunStreams(ReportLines(b_results)) \o r.lines
                     \o (IF r.ok THEN <<L("finished")>> ELSE <<L("convert_failed")>>))
        /\ b_conv' = [b_conv EXCEPT ![b_i] =
                        [how |-> "ran", results |-> b_results, returned |-> IF r.ok THEN "True" ELSE "False"]]
    /\ b_pc' = "loop"
    /\ b_i' = b_i + 1
    /\ b_k' = 1
    /\ b_results' = <<>>
    /\ UNCHANGED nonBatch

NextBatch ==
    \/ \E how \in {"skipped", "main_failed", "no_html", "html"} : B_Html(how)
    \/ B_NoStart
    \/ B_NoPandoc
    \/ B_Started
    \/ \E ok \in BOOLEAN : B_Pandoc(ok)
    \/ B_Report

InitBatch == BatchInit /\ RLIdle /\ PipeIdle /\ E2EIdle /\ EmbIdle /\ PrintIdle

SpecBatch == InitBatch /\ [][NextBatch]_vars

\* the converter run of document d is over and it failed
ConverterFailed(d) ==
    \/ b_conv[d].how \in {"no_start", "no_pandoc"}
    \/ /\ b_conv[d].how = "ran"
       /\ \E i \in DOMAIN b_conv[d].results : ~b_conv[d].results[i].ok

\* the lines that tell of a failed conversion
FailureLines ==
    {L("convert_failed"), L("failed_to_start_process")}
        \cup {<<"pandoc_failed", Formats[k]>> : k \in DOMAIN Formats}
        \cup {<<"failed", Formats[k]>> : k \in DOMAIN Formats}

\* ------------------------------------------------------------------------
\* C25  When the external format converter fails for a document, the
\* end-to-end wrapper reports the conversion failure for that document (a
\* line that tells of the failure is among the lines printed during that
\* document's iteration) and continues with the next document of the batch.
\* ------------------------------------------------------------------------
C25_ConverterFailureReported ==
    \A d \in Docs :
        ConverterFailed(d) =>
            /\ \E i \in DOMAIN b_out[d] : b_out[d][i] \in FailureLines
            /\ b_i > d

\* pandoc failed for one format of the first document while the converter
\* exited with code 0, and the second document has been converted since
C25_Witness ==
    /\ NumDocs >= 2
    /\ b_conv[1].how = "ran"
    /\ b_conv[1].returned = "True"
    /\ \E i \in DOMAIN b_conv[1].results : ~b_conv[1].results[i].ok
    /\ b_conv[2].how = "ran"
    /\ ~ConverterFailed(2)


\* ========================================================================
\* The RateLimiter over a batch: one limiter per document
\*                                                     main.py 1011-1048
\* ========================================================================
\* main.py 1048, inside `for pdf_file in pdf_files`: the pool of the document
\* before has shut down (every worker is out of acquire()), the loop moves
\* to the next document and builds a new RateLimiter for it, whose deque
\* is empty
NewLimiter ==
    /\ \A t \in Threads : rl_pc[t] = "idle"
    /\ doc < NumDocs
    /\ doc' = doc + 1
    /\ requests' = <<>>
    /\ lock' = {}
    /\ UNCHANGED <<clock, rl_pc, rl_now, rl_wake, admitted, calls>>
    /\ UNCHANGED <<max_workers, per_page, force, bpc, tried, reader, pg, collected, results,
                   completed, failed, whole, doc_log>>
    /\ UNCHANGED <<e2eVars, embVars, batchVars, printVars>>

NextBatchRL ==
    \/ NextRL
    \/ NewLimiter

SpecBatchRL == InitRL /\ [][NextBatchRL]_vars

\* ------------------------------------------------------------------------
\* C26  During one per-page batch run over several documents, at most
\* requests_per_minute generation admissions occur in any 60-second window,
\* including windows that span the end of one document and the start of the
\* next: of the admissions of the whole run, any one and the
\* requests_per_minute-th after it are at least a full window apart.
\* ------------------------------------------------------------------------
C26_BatchWindowBound ==
    \A i, j \in DOMAIN admitted :
        j >= i + MaxRequests => admitted[j].at >= admitted[i].at + TimeWindow


\* ------------------------------------------------------------------------
\* the stages of a page, in the order of the state machine
StageOrder ==
    <<"Pending", "Extracting", "RateLimited", "Generating", "Sanitizing",
      "Resolving", "Persisted">>

TerminalStages == {"Persisted", "Failed"}

\* tr with a final "Failed" taken off
BeforeFailed(tr) ==
    IF tr # <<>> /\ tr[Len(tr)] = "Failed" THEN SubSeq(tr, 1, Len(tr) - 1) ELSE tr

\* tr is a beginning of StageOrder
StartsStageOrder(tr) ==
    /\ Len(tr) <= Len(StageOrder)
    /\ \A i \in DOMAIN tr : tr[i] = StageOrder[i]

\* no stage follows a terminal one
EndsAtTerminal(tr) ==
    \A i \in DOMAIN tr : tr[i] \in TerminalStages => i = Len(tr)

\* the path of a page that is skipped as already converted
SkippedPath == <<"Pending", "Extracting", "Persisted">>

\* C27 (as stated)  Each page moves through Pending, Extracting,
\* RateLimited, Generating, Sanitizing, Resolving, Persisted in exactly that
\* order, may move to Failed from any non-terminal state, and never leaves
\* Persisted or Failed; the page's markup file is written only after
\* placeholder resolution, and no step is skipped on the way to Persisted.
C27_PageStateMachine ==
    \A p \in Pages :
        LET tr == pg[p].trace IN
        /\ StartsStageOrder(BeforeFailed(tr))
        /\ EndsAtTerminal(tr)
        /\ pg[p].written => PageState(pg[p]) = "Persisted"

\* C27 (amended)  Each page moves through Pending, Extracting, RateLimited,
\* Generating, Sanitizing, Resolving, Persisted in exactly that order, may
\* move to Failed from any non-terminal state, and never leaves Persisted or
\* Failed; the page's markup file is written at the end of Sanitizing,
\* before placeholder resolution, and no step is skipped on the way to
\* Persisted except by a page that is skipped as already converted, which
\* moves from Extracting to Persisted with its file left as it was.
C27_PageStateMachineWriteFirst ==
    \A p \in Pages :
        LET tr == pg[p].trace IN
        /\ StartsStageOrder(BeforeFailed(tr)) \/ tr = SkippedPath
        /\ EndsAtTerminal(tr)
        /\ tr = SkippedPath => SkippedUntouched(p)
        /\ pg[p].written =>
            \E i \in DOMAIN tr : tr[i] = "Sanitizing"
        /\ (\E i \in DOMAIN tr : tr[i] = "Resolving") => pg[p].written

\* one page has gone through every stage and is persisted, its file
\* written; another one was skipped as already converted
C27_Witness ==
    \E p, q \in Pages :
        /\ pg[p].trace = StageOrder
        /\ pg[p].written
        /\ pg[q].trace = SkippedPath


\* ------------------------------------------------------------------------
\* C28  No thread holds the RateLimiter's mutex while it sleeps waiting for
\* a slot: the mutex is released before the sleep and re-acquired afterwards
\* to re-evict and record, so another thread can enter acquire()'s critical
\* section during the sleep.
\* ------------------------------------------------------------------------
C28_NoSleepUnderLock ==
    \A t \in Threads : rl_pc[t] = "sleeping" => t \notin lock


\* ========================================================================
\* The worker pool of one document, for pools of every size up to MaxWorkers
\*                                                     main.py 1032-1093
\* ========================================================================
PoolInit ==
    /\ max_workers \in 1..MaxWorkers
    /\ per_page = TRUE
    /\ force \in BOOLEAN
    /\ doc = 1
    /\ bpc = "doc_start"
    /\ doc_log = [d \in Docs |-> NoLog]
    /\ DocLocalsCleared

\* the per-page part of convert_pdf_folder, up to the summary of the document
NextPool ==
    \/ DocStart
    \/ \E o \in 0..MaxPages : ReadTry(o)
    \/ Submit
    \/ \E p \in Pages : StartPage(p)
    \/ \E p \in Pages, ok \in BOOLEAN : Extract(p, ok)
    \/ \E p \in Pages, out \in RetryOutcomes : Retry(p, out)
    \/ \E p \in Pages, st \in FileStates : SkipCheck(p, st)
    \/ \E p \in Pages : Acquire(p)
    \/ \E p \in Pages, ok \in BOOLEAN : Upload(p, ok)
    \/ \E p \in Pages, ok \in BOOLEAN : Generate(p, ok)
    \/ \E p \in Pages : Sanitize(p)
    \/ \E p \in Pages, ok \in BOOLEAN : Finally(p, ok)
    \/ \E p \in Pages : Embed(p)
    \/ Collect
    \/ PoolDone

InitPool == PoolInit /\ RLIdle /\ E2EIdle /\ EmbIdle /\ BatchIdle /\ PrintIdle

SpecPool == InitPool /\ [][NextPool]_vars

\* ------------------------------------------------------------------------
\* the stages of a page that has been started and has not ended
StartedStages ==
    {"Extracting", "RateLimited", "Generating", "Sanitizing", "Resolving"}

InFlight == {p \in Pages : PageState(pg[p]) \in StartedStages}

\* C29  At every moment at most max_workers pages of a document are in a
\* started, non-terminal state (Extracting through Resolving); every other
\* page is still Pending or already terminal, and each page index is taken
\* by exactly one worker.
\* ------------------------------------------------------------------------
C29_AtMostMaxWorkersInFlight ==
    /\ Cardinality(InFlight) <= max_workers
    /\ \A p \in Pages \ InFlight :
        pg[p].pc # "none" => PageState(pg[p]) \in {"Pending"} \cup TerminalStages
    /\ \A p \in Pages :
        pg[p].starts = IF PageState(pg[p]) \in {"None", "Pending"} THEN 0 ELSE 1

\* a document with more pages than workers: every worker is busy with a
\* page while a further page is still Pending
C29_Witness ==
    /\ per_page
    /\ reader.num_pages > max_workers
    /\ Cardinality(InFlight) = max_workers
    /\ \E p \in DocPages : PageState(pg[p]) = "Pending"
    /\ \E p \in DocPages : pg[p].pc = "generate"


\* ========================================================================
\* Printing while the pool runs      main.py 142-182, 540-660, 662-821,
\*                                           835-968, 1045, 1070-1089
\* ========================================================================
Supervisor == 0
PoolThreads == 1..MaxWorkers

\* the print calls on the way of a page that is extracted with pypdf,
\* generated, saved and has its images embedded, in the order of the code:
\* the function that holds the call, its line, and when it is reached
WorkerSites ==
    <<[fn |-> "process_single_page", line |-> 836, when |-> "always"],
      [fn |-> "extract_page_as_pdf", line |-> 180, when |-> "verbose"],
      [fn |-> "process_single_page", line |-> 894, when |-> "always"],
      [fn |-> "ensure_html_lang_dir", line |-> 585, when |-> "verbose"],
      [fn |-> "process_single_page", line |-> 946, when |-> "always"],
      [fn |-> "embed_images_inline", line |-> 802, when |-> "images"]>>

\* lines 1083-1084: the progress line after each future.result()
SupervisorSite == [fn |-> "convert_pdf_folder", line |-> 1085, when |-> "always"]

\* the call is inside a `with print_lock:` block: so are the calls of
\* process_single_page (835-966) and of the supervisor loop (1083-1089);
\* extract_page_as_pdf, ensure_html_lang_dir and embed_images_inline are
\* not passed the lock and print without it
UnderPrintLock(site) == site.fn \in {"process_single_page", "convert_pdf_folder"}

\* the `if verbose:` of lines 167, 179, 554-660; the prints of lines 802 and
\* 819 need a manifest with images for the page
Reached(site) ==
    \/ site.when = "always"
    \/ site.when = "verbose" /\ verbose
    \/ site.when = "images" /\ with_images

\* the site of the next print call of thread t
SiteOf(t) == IF t = Supervisor THEN SupervisorSite ELSE WorkerSites[pr_pos[t] + 1]

WorkerDone(t) == pr_pos[t] = Len(WorkerSites)

PrintInit ==
    /\ verbose \in BOOLEAN
    /\ with_images \in BOOLEAN
    /\ print_lock = {}
    /\ pr_pos = [t \in PrintThreads |-> 0]
    /\ pr_pc = [t \in PrintThreads |-> "run"]

\* a worker comes to its next print call, or passes a call that its
\* condition leaves out
P_Reach(t) ==
    /\ t \in PoolThreads
    /\ pr_pc[t] = "run"
    /\ ~WorkerDone(t)
    /\ IF Reached(SiteOf(t))
       THEN /\ pr_pc' = [pr_pc EXCEPT ![t] =
                            IF UnderPrintLock(SiteOf(t)) THEN "wait" ELSE "printing"]
            /\ UNCHANGED pr_pos
       ELSE /\ pr_pos' = [pr_pos EXCEPT ![t] = @ + 1]
            /\ UNCHANGED pr_pc
    /\ UNCHANGED <<verbose, with_images, print_lock>>
    /\ UNCHANGED nonPrint

\* lines 1071-1084: future.result() of the next future in submission order
\* has returned; the supervisor comes to its progress line
P_Progress ==
    /\ pr_pc[Supervisor] = "run"
    /\ pr_pos[Supervisor] < MaxWorkers
    /\ WorkerDone(pr_pos[Supervisor] + 1)
    /\ pr_pc' = [pr_pc EXCEPT ![Supervisor] =
                    IF UnderPrintLock(SiteOf(Supervisor)) THEN "wait" ELSE "printing"]
    /\ UNCHANGED <<verbose, with_images, print_lock, pr_pos>>
    /\ UNCHANGED nonPrint

\* `with print_lock:` the thread obtains the lock and starts to print
P_Lock(t) ==
    /\ pr_pc[t] = "wait"
    /\ print_lock = {}
    /\ print_lock' = {t}
    /\ pr_pc' = [pr_pc EXCEPT ![t] = "printing"]
    /\ UNCHANGED <<verbose, with_images, pr_pos>>
    /\ UNCHANGED nonPrint

\* the print call returns; the end of the with block releases the lock
P_Printed(t) ==
    /\ pr_pc[t] = "printing"
    /\ print_lock' = print_lock \ {t}
    /\ pr_pos' = [pr_pos EXCEPT ![t] = @ + 1]
    /\ pr_pc' = [pr_pc EXCEPT ![t] = "run"]
    /\ UNCHANGED <<verbose, with_images>>
    /\ UNCHANGED nonPrint

NextPrint ==
    \/ \E t \in PoolThreads : P_Reach(t)
    \/ P_Progress
    \/ \E t \in PrintThreads : P_Lock(t)
    \/ \E t \in PrintThreads : P_Printed(t)

InitPrint == PrintInit /\ RLIdle /\ PipeIdle /\ E2EIdle /\ EmbIdle /\ BatchIdle

SpecPrint == InitPrint /\ [][NextPrint]_vars

Printing == {t \in PrintThreads : pr_pc[t] = "printing"}

\* ------------------------------------------------------------------------
\* C30  Every line printed while the worker pool is running, by a worker,
\* by a helper a worker calls (page extraction, language normalization,
\* image embedding) or by the supervisor, is printed while the printing
\* thread holds the single print lock, so no two threads are ever printing
\* at the same time.
\* ------------------------------------------------------------------------
C30_PrintsUnderLock ==
    /\ \A t \in Printing : t \in print_lock
    /\ Cardinality(Printing) <= 1


\* ------------------------------------------------------------------------
\* C31  Every temporary single-page PDF created by a worker is deleted
\* before that worker's page reaches a terminal state, on every path: skip
\* because the output is fresh, extraction failure, upload failure,
\* generation success and generation failure.
\* ------------------------------------------------------------------------
C31_TmpDeletedAtEnd ==
    \A p \in Pages : Terminal(pg[p]) => ~pg[p].tmp


\* ------------------------------------------------------------------------
\* the number of matches before the m-th that a fallback step answered
StepsBefore(m, step) == Cardinality({k \in 1..(m - 1) : repl[k].step = step})

\* the positional step has an entry left for the m-th match
PositionalLeft(m) ==
    /\ page_num # 0
    /\ page_num \in DOMAIN images_by_page
    /\ StepsBefore(m, "page") < Len(images_by_page[page_num])

\* the global step has an entry left for the m-th match
GlobalLeft(m) == StepsBefore(m, "global") < Len(all_images_ordered)

\* C32  For every token, a match on a region's declared id wins over a
\* filename-stem match, a filename-stem match wins over the positional
\* (page) fallback, and the positional fallback wins over the global
\* fallback; a later step is consulted only when every earlier step found no
\* region.
\* ------------------------------------------------------------------------
C32_ResolutionOrder ==
    \A m \in DOMAIN repl :
        LET r == repl[m]
            byId == img_map(r.tok.id)
            byStem == filename_map(r.tok.id)
        IN  /\ byId # 0 => (r.step = "id" /\ r.e = byId)
            /\ (byId = 0 /\ byStem # 0) => (r.step = "stem" /\ r.e = byStem)
            /\ (byId = 0 /\ byStem = 0 /\ PositionalLeft(m)) => r.step = "page"
            /\ (byId = 0 /\ byStem = 0 /\ ~PositionalLeft(m) /\ GlobalLeft(m))
                    => r.step = "global"
            /\ r.step = "none" =>
                (byId = 0 /\ byStem = 0 /\ ~PositionalLeft(m) /\ ~GlobalLeft(m))

\* a token whose id is the declared id of one image and the file name stem
\* of another was given the first; another token went to a fallback step
C32_Witness ==
    \E m, n \in DOMAIN repl :
        /\ repl[m].step = "id"
        /\ filename_map(repl[m].tok.id) \notin {0, repl[m].e}
        /\ repl[n].step \in {"page", "global"}


\* ------------------------------------------------------------------------
\* extract_page_as_pdf, lines 156 and 172: the routine a tag selects, named
\* by the kind of handle it works on
RoutineFor(tag) == IF tag = "pymupdf" THEN "fitz.Document" ELSE "PdfReader"

\* C33  At every page-extraction call the backend tag passed equals the
\* kind of the handle passed: the PyMuPDF routine is applied only to PyMuPDF
\* handles and the pypdf routine only to pypdf handles, both for the handle
\* returned by the reader and for the handle opened by the per-page
\* fallback.
\* ------------------------------------------------------------------------
C33_TagMatchesHandle ==
    \A p \in Pages :
        /\ Len(pg[p].handles) = Len(pg[p].calls)
        /\ \A i \in DOMAIN pg[p].calls :
            RoutineFor(pg[p].calls[i]) = pg[p].handles[i]

\* a page whose extraction through the pypdf handle of the reader failed
\* and was tried again through a PyMuPDF handle, while a page of the same
\* document is being extracted through the handle of the reader
C33_Witness ==
    \E p, q \in Pages :
        /\ pg[p].calls = <<"pypdf", "pymupdf">>
        /\ pg[p].handles = <<"PdfReader", "fitz.Document">>
        /\ pg[q].calls = <<"pypdf">>
        /\ pg[q].handles = <<"PdfReader">>


\* ========================================================================
\* The worker pool of one document when a generation call hangs
\*                                               main.py 914-918, 1055-1092
\* ========================================================================
\* lines 914-918: generate_content is called without a timeout; the call of
\* page p never returns (at most one call of the run does so)
Hang(p) ==
    /\ pg[p].pc = "generate"
    /\ \A q \in Pages : pg[q].pc # "hung"
    /\ PageStep(p, [pg[p] EXCEPT !.pc = "hung", !.gens = @ + 1])

NextHang ==
    \/ NextPool
    \/ \E p \in Pages : Hang(p)

\* The workers are OS threads and the supervisor is the main thread: a step
\* that can be taken is taken in the end, and every call to the outside
\* other than the hung one returns.
SpecHang == InitPool /\ [][NextHang]_vars /\ WF_vars(NextPool)

\* ------------------------------------------------------------------------
\* the generation call of page p has hung
Hung(p) == pg[p].pc = "hung"

\* the generation call of some page has hung
SomeHung == \E p \in Pages : Hung(p)

\* the hung call never returns: its worker stays in it and takes no other
\* page, at most max_workers - 1 other pages are in flight, and the pipeline
\* of the document does not reach its summary
HungWorkerStays ==
    /\ [][\A p \in Pages : Hung(p) => (Hung(p))']_vars
    /\ [](\A p \in Pages : Hung(p) =>
            /\ Cardinality(InFlight \ {p}) <= max_workers - 1
            /\ bpc # "summary")

\* every page of the document other than the hung one is terminal (a
\* terminal page stays terminal)
OthersTerminal ==
    \A q \in Pages : (q < reader.num_pages /\ ~Hung(q)) => Terminal(pg[q])

\* C34 (as stated)  If the generation call of one page never returns, the
\* worker running it never takes another page and the document's pipeline
\* never finishes, while the other max_workers - 1 workers still bring every
\* remaining page to a terminal state; the supervisor waiting on that page's
\* future does not stop them.
C34_HungCallBlocksOneWorker ==
    /\ HungWorkerStays
    /\ SomeHung ~> OthersTerminal

\* C34 (amended)  ... while, when max_workers is at least 2, the other
\* max_workers - 1 workers still bring every remaining page to a terminal
\* state; the supervisor waiting on that page's future does not stop them.
C34_HungCallBlocksOneWorkerOfSeveral ==
    /\ HungWorkerStays
    /\ (SomeHung /\ max_workers >= 2) ~> OthersTerminal

\* the call of the first page hangs, the supervisor waits for its future,
\* and the page after it has been brought to its end by the other worker
C34_Witness ==
    /\ Hung(0)
    /\ collected = 0
    /\ max_workers >= 2
    /\ reader.num_pages >= 2
    /\ \A q \in DocPages \ {0} : Terminal(pg[q]) /\ pg[q].starts = 1



\* ------------------------------------------------------------------------
\* C35  Within one run of the resolver on one page, the positional and the
\* global fallback never substitute a region that was already substituted
\* for an earlier token of that page.
\* ------------------------------------------------------------------------
C35_FallbackNeverReuses ==
    \A k \in DOMAIN repl :
        repl[k].step \in {"page", "global"} =>
            repl[k].e \notin {repl[m].e : m \in 1..(k - 1)}



\* ========================================================================
\* The worker pool of one document with its two locks: the mutex of the
\* rate limiter and print_lock      main.py 45-68, 889-894, 1055-1092
\* ========================================================================
\* the thread that runs page p
ThreadOf(p) == p + 1

\* frame of a step of the worker of page p that takes or gives back a lock
LockStep(p, r, l, pl) ==
    /\ pg' = [pg EXCEPT ![p] = Traced(r)]
    /\ lock' = l
    /\ print_lock' = pl
    /\ UNCHANGED <<max_workers, per_page, force, doc, bpc, tried, reader,
                   collected, results, completed, failed, whole, doc_log>>
    /\ UNCHANGED <<clock, requests, rl_pc, rl_now, rl_wake, admitted, calls>>
    /\ UNCHANGED <<verbose, with_images, pr_pos, pr_pc>>
    /\ UNCHANGED <<e2eVars, embVars, batchVars>>

\* line 890: `with print_lock:` before the line "Waiting for rate limit slot"
WaitPrint(p) ==
    /\ pg[p].pc = "acquire"
    /\ print_lock = {}
    /\ LockStep(p, [pg[p] EXCEPT !.pc = "slot_print"], lock, {ThreadOf(p)})

\* line 891: the line is printed, the with block ends
WaitPrinted(p) ==
    /\ pg[p].pc = "slot_print"
    /\ LockStep(p, [pg[p] EXCEPT !.pc = "slot_wait"], lock,
                print_lock \ {ThreadOf(p)})

\* lines 892, 50: rate_limiter.acquire() enters `with self.lock:`
SlotLock(p) ==
    /\ pg[p].pc = "slot_wait"
    /\ lock = {}
    /\ LockStep(p, [pg[p] EXCEPT !.pc = "slot_locked"], {ThreadOf(p)},
                print_lock)

\* the mutex is not given back at the end of acquire() (mutant of SlotRecord)
SlotRecordKeepsLock(p) ==
    /\ pg[p].pc = "slot_locked"
    /\ LockStep(p, [pg[p] EXCEPT !.pc = "upload", !.acquires = @ + 1],
                lock, print_lock)

\* lines 51-68: the body of acquire(); time.sleep returns after sleep_time,
\* the timestamp is recorded and the with block gives the mutex back.  The
\* print block of lines 893-894 that follows is one more block like that of
\* lines 890-891 and is left out.
SlotRecord(p) ==
    /\ pg[p].pc = "slot_locked"
    /\ LockStep(p, [pg[p] EXCEPT !.pc = "upload", !.acquires = @ + 1],
                lock \ {ThreadOf(p)}, print_lock)

\* lines 1071-1082 and 1086-1087: future.result() of the next future in
\* submission order returns or raises, the counters are updated, and the
\* supervisor comes to its `with print_lock:`
FutureResult ==
    /\ bpc = "collect"
    /\ pr_pc[Supervisor] = "run"
    /\ collected < reader.num_pages
    /\ Terminal(pg[collected])
    /\ collected' = collected + 1
    /\ IF pg[collected].pc = "returned"
       THEN /\ results' = Append(results, pg[collected].result)
            /\ completed' = completed + 1
            /\ failed' = IF pg[collected].result[2] THEN failed ELSE failed + 1
       ELSE /\ failed' = failed + 1
            /\ UNCHANGED <<results, completed>>
    /\ pr_pc' = [pr_pc EXCEPT ![Supervisor] = "wait"]
    /\ UNCHANGED <<max_workers, per_page, force, doc, bpc, tried, reader, pg,
                   whole, doc_log>>
    /\ UNCHANGED <<verbose, with_images, print_lock, pr_pos>>
    /\ UNCHANGED <<rlVars, e2eVars, embVars, batchVars>>

\* lines 1091-1093: the loop over the futures is over
LoopDone ==
    /\ pr_pc[Supervisor] = "run"
    /\ PoolDone

LocksInit ==
    /\ verbose = FALSE
    /\ with_images = FALSE
    /\ print_lock = {}
    /\ pr_pos = [t \in PrintThreads |-> 0]
    /\ pr_pc = [t \in PrintThreads |-> IF t = Supervisor THEN "run" ELSE "idle"]

NextLocks ==
    \/ DocStart
    \/ \E o \in 0..MaxPages : ReadTry(o)
    \/ Submit
    \/ \E p \in Pages : StartPage(p)
    \/ \E p \in Pages, ok \in BOOLEAN : Extract(p, ok)
    \/ \E p \in Pages, out \in RetryOutcomes : Retry(p, out)
    \/ \E p \in Pages, st \in FileStates : SkipCheck(p, st)
    \/ \E p \in Pages : WaitPrint(p)
    \/ \E p \in Pages : WaitPrinted(p)
    \/ \E p \in Pages : SlotLock(p)
    \/ \E p \in Pages : SlotRecord(p)
    \/ \E p \in Pages, ok \in BOOLEAN : Upload(p, ok)
    \/ \E p \in Pages, ok \in BOOLEAN : Generate(p, ok)
    \/ \E p \in Pages : Sanitize(p)
    \/ \E p \in Pages, ok \in BOOLEAN : Finally(p, ok)
    \/ \E p \in Pages : Embed(p)
    \/ FutureResult
    \/ P_Lock(Supervisor)
    \/ P_Printed(Supervisor)
    \/ LoopDone

\* force is left at its default: with it the freshness check of lines
\* 878-884 has both of its outcomes, and a forced run only loses the skip
InitLocks ==
    /\ PoolInit
    /\ force = FALSE
    /\ RLIdle /\ E2EIdle /\ EmbIdle /\ BatchIdle /\ LocksInit

\* The workers and the supervisor are OS threads: a thread that can take a
\* step takes one in the end.  Every upload, generation and delete call
\* returns, with a result or with an error (Upload, Generate, Finally).
SpecLocks == InitLocks /\ [][NextLocks]_vars /\ WF_vars(NextLocks)

\* ------------------------------------------------------------------------
\* the pool has shut down: every page of the document is terminal, every
\* future was waited for, no lock is held, the `with` block is left
PoolShutDown ==
    /\ bpc = "summary"
    /\ collected = reader.num_pages
    /\ \A p \in Pages : p < reader.num_pages => Terminal(pg[p])
    /\ lock = {}
    /\ print_lock = {}

\* C36  In per-page mode, if every upload, generation and delete call
\* returns (with a result or with an error), then under fair scheduling
\* every page reaches a terminal state and the worker pool shuts down: no
\* interleaving of workers and supervisor over the rate-limiter mutex and
\* the print lock deadlocks.
C36_PoolTerminates == (bpc = "collect") ~> PoolShutDown

\* every page of a document of two or more pages has gone through its
\* print block and acquire(), and the pool has shut down
C36_Witness ==
    /\ PoolShutDown
    /\ reader.num_pages >= 2
    /\ \A p \in DocPages : pg[p].acquires = 1



\* ------------------------------------------------------------------------
\* C37  Every file uploaded to the generation backend for a page is deleted
\* from the backend exactly once after that page's generation call, whether
\* the call succeeded or failed, and no delete is issued for a page whose
\* upload failed: a page issues at most one delete call, only after its one
\* generation call; a page that ends after a successful upload has issued
\* it, and the file is gone when the page goes on past the finally block.
\* ------------------------------------------------------------------------
C37_DeleteOncePerUpload ==
    \A p \in Pages :
        LET r == pg[p] IN
        /\ r.deletes <= 1
        /\ r.deletes = 1 => (r.uploads = 1 /\ r.gens = 1 /\ r.cause # "upload")
        /\ (Terminal(r) /\ r.gens >= 1) => r.deletes = 1
        /\ r.pc \in {"embed", "returned"} => ~r.uploaded
        /\ r.cause = "upload" => (r.deletes = 0 /\ ~r.uploaded)

\* one page has ended after a failed generation call and one after a
\* generation call that succeeded or a failed upload
C37_Witness ==
    \E p, q \in Pages :
        /\ Terminal(pg[p]) /\ pg[p].cause = "generate" /\ pg[p].deletes = 1
        /\ Terminal(pg[q])
        /\ \/ pg[q].gen_ok /\ pg[q].deletes = 1
           \/ pg[q].cause = "upload" /\ pg[q].uploads = 1



\* ------------------------------------------------------------------------
\* C38  Every result tuple returned by process_single_page with success =
\* False carries None as its artifact; a non-None output path is returned
\* only together with success = True.
\* ------------------------------------------------------------------------
C38_FailedCarriesNone ==
    /\ \A p \in Pages :
        pg[p].pc = "returned" =>
            /\ pg[p].result[1] = p
            /\ ~pg[p].result[2] => pg[p].result[3] = "None"
            /\ pg[p].result[3] # "None" => pg[p].result[2]
    /\ \A i \in DOMAIN results :
        results[i][3] # "None" => results[i][2]

\* one page was returned as failed, with None, and another as converted,
\* with its output path
C38_Witness ==
    \E p, q \in Pages :
        /\ pg[p].pc = "returned" /\ pg[p].result = <<p, FALSE, "None">>
        /\ pg[q].pc = "returned" /\ pg[q].result = <<q, TRUE, "output_filepath">>
        /\ pg[q].gen_ok



\* ------------------------------------------------------------------------
\* C39  The resolver appends the trailing extracted-figures section only
\* when that section lists at least one image: when the manifest lists
\* images for the page but none of their files is found or copied, the
\* page's markup is left unchanged.
\* ------------------------------------------------------------------------
C39_SectionOnlyWithImages ==
    (emb_pc = "ready" /\ emb_runs >= 1) =>
        /\ emb_last = "appended" => Len(out_file[Len(out_file)].figs) >= 1
        /\ (manifest # <<>> /\ \A j \in DOMAIN manifest : ~manifest[j].found)
                => out_file = html



\* ------------------------------------------------------------------------
\* C40  For max_requests >= 1, after every acquire() the RateLimiter's
\* timestamp queue holds at most max_requests entries and its entries are
\* in non-decreasing order, under any interleaving of concurrent callers.
\* (The queue changes only inside acquire(), so the bound is stated for
\* every state.)
\* ------------------------------------------------------------------------
C40_QueueBoundedAndOrdered ==
    /\ Len(requests) <= MaxRequests
    /\ \A i, j \in DOMAIN requests : i < j => requests[i] <= requests[j]

\* a caller has slept inside acquire(), two calls beyond the first
\* max_requests are over, no call is running, and the queue is full with
\* two different timestamps
C40_Witness ==
    /\ \A t \in Threads : rl_pc[t] = "idle"
    /\ Len(requests) = MaxRequests
    /\ \E i \in DOMAIN admitted : admitted[i].slept
    /\ Len(admitted) >= MaxRequests + 2
    /\ \E i, j \in DOMAIN requests : requests[i] < requests[j]

====
